---- MODULE Spec2Model ----
(***************************************************************************)
(* Memory Manager of nntrainer (src/nntrainer/tensor/manager.h, the        *)
(* manager.cpp part, lines 303-468): tracked weights, tracked layer        *)
(* inputs/outputs, the two running maxima, and the two shared arenas that  *)
(* initialize() / initializeInOuts() carve gradients and derivatives from. *)
(***************************************************************************)
EXTENDS Integers, Sequences, FiniteSets, TLC

VARIABLES
  weights,                      \* vector<vector<reference_wrapper<Weight>>>
  in_outs,                      \* vector<vector<shared_ptr<Var_Grad>>>
  max_weight_size,              \* size_t
  max_derivative_size,          \* size_t
  enable_gradient_memory_opt,   \* bool
  enable_derivative_memory_opt, \* bool
  shared_grad,                  \* the Tensor local to the last initialize()
  shared_deriv,                 \* the Tensor local to the last initializeInOuts()
  model_batch,                  \* batch size the layers' dimensions carry
  last,                         \* the last Manager call and its arguments
  run,                          \* where the training step of the graph is
  tdim,                         \* dimensions of each pair's value and gradient
  positions,                    \* TimeDistLayer::positions of each node
  deriv_mem,                    \* contents of the derivative arena
  grad_mem,                     \* contents of the gradient arena
  lost,                         \* tensors read after another tensor's write
  inner,                        \* inner-layer calls of the last TimeDistLayer call
  lnode,                        \* the LayerNode object
  ncall,                        \* the last LayerNode call and its outcome
  time_dist,                    \* a TimeDistLayer and the buffers bound to it
  input_layer,                  \* an InputLayer
  data_buffer,                  \* a DataBuffer_v2
  store                         \* nodes saving to and reading from a stream

vars == <<weights, in_outs, max_weight_size, max_derivative_size,
          enable_gradient_memory_opt, enable_derivative_memory_opt,
          shared_grad, shared_deriv, model_batch, last,
          run, tdim, positions, deriv_mem, grad_mem, lost, inner, lnode, ncall,
          time_dist, input_layer, data_buffer, store>>

run_vars == <<run, tdim, positions, deriv_mem, grad_mem, lost, inner>>

node_vars == <<lnode, ncall>>

aux_vars == <<time_dist, input_layer, data_buffer, store>>

----------------------------------------------------------------------------
(* Bounds of the model *)

MaxWeightNodes == 2
MaxWeightsPerNode == 2
MaxInOutNodes == 2
MaxDerivativeSize == 88
MaxRunNodes == 2
MaxProperties == 2

----------------------------------------------------------------------------
(* Helpers *)

Max(a, b) == IF a >= b THEN a ELSE b

RECURSIVE SumSeq(_)
SumSeq(s) == IF s = <<>> THEN 0 ELSE Head(s) + SumSeq(Tail(s))

SetMax(S) == IF S = {} THEN 0 ELSE CHOOSE m \in S : \A x \in S : x <= m

SeqsUpTo(S, n) == UNION {[1..k -> S] : k \in 0..n}

----------------------------------------------------------------------------
(* TensorDim: <<batch, channel, height, width>> *)

DimBatch(dim) == dim[1]

getDataLen(dim) == dim[1] * dim[2] * dim[3] * dim[4]

WithBatch(dim, b) == <<b, dim[2], dim[3], dim[4]>>

(* Tensor: empty (the uninitialized sentinel), own (a private allocation of *)
(* cap elements) or alias (a view at offset off of a buffer of cap          *)
(* elements; cap = 0 when the parent is the empty tensor).                  *)

EmptyTensor == [kind |-> "empty", cap |-> 0, off |-> 0]

NewTensor(n) == [kind |-> "own", cap |-> n, off |-> 0]

getSharedDataTensor(parent, dim, offset) ==
  [kind |-> "alias", cap |-> parent.cap, off |-> parent.off + offset]

(* The half-open region of elements a tensor of dimension dim covers. *)
Region(t, dim) == t.off .. (t.off + getDataLen(dim) - 1)

----------------------------------------------------------------------------
(* Names: strings as sequences of tokens, std::to_string as decimal digits *)

Digits == <<"0", "1", "2", "3", "4", "5", "6", "7", "8", "9">>

RECURSIVE to_string(_)
to_string(n) ==
  IF n < 10 THEN <<Digits[n + 1]>>
  ELSE to_string(n \div 10) \o <<Digits[(n % 10) + 1]>>

(* Mutation: the counter of the generated names starts at 1 *)
VarNameFromOne(layer_name, cnt) ==
  layer_name \o <<":InOut">> \o to_string(cnt + 1)

VarName(layer_name, cnt) == layer_name \o <<":InOut">> \o to_string(cnt)

----------------------------------------------------------------------------
(* Weight and Var_Grad objects *)

Weight(dim, trainable) ==
  [dim |-> dim, trainable |-> trainable, grad |-> EmptyTensor, init |-> FALSE]

(* Mutation: the gradient is allocated whether trainable or not *)
Var_GradAlwaysAllocated(dim, train, name) ==
  [name |-> name, dim |-> dim, trainable |-> train,
   grad |-> NewTensor(getDataLen(dim)), init |-> FALSE]

(* Var_Grad::Var_Grad(dim, train, name): the gradient is a tensor of the    *)
(* variable's dimension when trainable, the empty sentinel otherwise.       *)
Var_Grad(dim, train, name) ==
  [name |-> name, dim |-> dim, trainable |-> train,
   grad |-> IF train THEN NewTensor(getDataLen(dim)) ELSE EmptyTensor,
   init |-> FALSE]

(* Weight::initialize(grad_shared): binds the given gradient tensor, or a   *)
(* private one of the weight's own shape when none is given and the weight  *)
(* is trainable.                                                            *)
WeightInitialize(w, grad_shared) ==
  [w EXCEPT !.init = TRUE,
            !.grad = IF grad_shared.kind # "empty" THEN grad_shared
                     ELSE IF w.trainable THEN NewTensor(getDataLen(w.dim))
                     ELSE EmptyTensor]

(* Var_Grad::initialize(grad_shared, gtrain) *)
VarGradInitialize(vg, grad_shared, gtrain) ==
  [vg EXCEPT !.init = TRUE,
             !.grad = IF grad_shared.kind # "empty" THEN grad_shared
                      ELSE IF vg.trainable /\ gtrain
                           THEN NewTensor(getDataLen(vg.dim))
                      ELSE EmptyTensor]

(* Var_Grad::setBatchSize: rewrites the batch dimension in place *)
VarGradSetBatchSize(vg, batch) == [vg EXCEPT !.dim = WithBatch(vg.dim, batch)]

----------------------------------------------------------------------------
(* Inputs the callers pass *)

BatchSizes == {4, 8}

WeightDims == {<<1, 1, 1, 2>>, <<1, 1, 1, 3>>}

WeightPool == {Weight(d, t) : d \in WeightDims, t \in BOOLEAN}

(* BatchNormalizationLayer::initialize: moving mean, moving variance (not   *)
(* trainable), gamma, beta (trainable), all of the reduced dimension.       *)
BNWeights(dim) ==
  <<Weight(dim, FALSE), Weight(dim, FALSE), Weight(dim, TRUE), Weight(dim, TRUE)>>

LayerNames == {<<"a">>, <<"b">>}

UntrackNames == LayerNames \cup {<<"a", ":InOut", "0">>}

(* Input dimensions of a layer; the batch is the model's batch size. *)
InputDimLists(b, trainable) ==
  IF trainable
  THEN {<<>>, <<<<b, 1, 1, 8>>>>, <<<<b, 1, 1, 8>>, <<b, 1, 1, 3>>>>}
  ELSE {<<<<b, 1, 1, 8>>>>}

(* The record of a call: its name and arguments and, for setBatchSize, the  *)
(* derivative size and first-pair batch it found (0 when there is no first *)
(* pair) and whether it repeats the call made just before it.              *)
Call(op, name, batch, flag) ==
  [op |-> op, name |-> name, batch |-> batch, flag |-> flag,
   old_size |-> 0, old_batch |-> 0, rep |-> FALSE]

NoCall == Call("none", <<>>, 0, FALSE)

----------------------------------------------------------------------------
(* Manager::Manager() *)

Init ==
  /\ weights = <<>>
  /\ in_outs = <<>>
  /\ max_weight_size = 0
  /\ max_derivative_size = 0
  /\ enable_gradient_memory_opt = TRUE
  /\ enable_derivative_memory_opt = TRUE
  /\ shared_grad = EmptyTensor
  /\ shared_deriv = EmptyTensor
  /\ model_batch = 4
  /\ last = NoCall
  /\ run = [stage |-> "build", node |-> 0]
  /\ tdim = <<>>
  /\ positions = <<>>
  /\ deriv_mem = <<>>
  /\ grad_mem = <<>>
  /\ lost = {}
  /\ inner = [op |-> "none", node |-> 0, calls |-> <<>>]
  /\ lnode = [made |-> FALSE]
  /\ ncall = [op |-> "none"]
  /\ time_dist = [made |-> FALSE]
  /\ input_layer = [made |-> FALSE]
  /\ data_buffer = [made |-> FALSE]
  /\ store = [made |-> FALSE]

weight_vars == <<weights, max_weight_size, shared_grad>>
inout_vars == <<in_outs, max_derivative_size, shared_deriv, model_batch>>
opt_vars == <<enable_gradient_memory_opt, enable_derivative_memory_opt>>

----------------------------------------------------------------------------
(* Weight registration and allocation *)

(* Manager::trackWeight *)
TrackWeight(w) ==
  /\ weights' = Append(weights, <<w>>)
  /\ UNCHANGED <<run_vars, node_vars, aux_vars>>
  /\ last' = Call("trackWeight", <<>>, 0, w.trainable)
  /\ UNCHANGED <<max_weight_size, shared_grad, inout_vars, opt_vars>>

(* The weight_size the loop of trackWeights accumulates *)
TrainableWeightSize(ws) ==
  SumSeq([k \in 1..Len(ws) |->
            IF ws[k].trainable THEN getDataLen(ws[k].dim) ELSE 0])

(* Manager::trackWeights *)
TrackWeights(ws) ==
  /\ weights' = Append(weights, ws)
  /\ max_weight_size' = Max(max_weight_size, TrainableWeightSize(ws))
  /\ UNCHANGED <<run_vars, node_vars, aux_vars>>
  /\ last' = Call("trackWeights", <<>>, 0, FALSE)
  /\ UNCHANGED <<shared_grad, inout_vars, opt_vars>>

(* Manager::setGradientMemoryOptimization *)
SetGradientMemoryOptimization(opt) ==
  /\ enable_gradient_memory_opt' = opt
  /\ UNCHANGED <<run_vars, node_vars, aux_vars>>
  /\ last' = Call("setGradientMemoryOptimization", <<>>, 0, opt)
  /\ UNCHANGED <<weight_vars, inout_vars, enable_derivative_memory_opt>>

(* Mutation: the arena is allocated whatever the flag and the size *)
SharedGradTensorUnguarded == NewTensor(max_weight_size)

(* The shared_grad tensor of initialize() *)
SharedGradTensor ==
  IF max_weight_size > 0 /\ enable_gradient_memory_opt
  THEN NewTensor(max_weight_size)
  ELSE EmptyTensor

(* Mutation: the offset is never advanced *)
GradOffsetStuck(l_w, k) == 0

(* Mutation: a weight that is not trainable advances the offset too *)
GradOffsetCountingAll(l_w, k) ==
  SumSeq([j \in 1..(k - 1) |->
            IF enable_gradient_memory_opt
            THEN getDataLen(l_w[j].dim) ELSE 0])

(* The offset the inner loop of initialize() has reached at weight k of l_w *)
GradOffset(l_w, k) ==
  SumSeq([j \in 1..(k - 1) |->
            IF l_w[j].trainable /\ enable_gradient_memory_opt
            THEN getDataLen(l_w[j].dim) ELSE 0])

(* Mutation: every weight is aliased when sharing is enabled *)
InitializedWeightAnyTrainable(l_w, k, sg) ==
  IF enable_gradient_memory_opt
  THEN WeightInitialize(l_w[k],
         getSharedDataTensor(sg, l_w[k].dim, GradOffset(l_w, k)))
  ELSE WeightInitialize(l_w[k], EmptyTensor)

(* One weight of the loop of initialize() *)
InitializedWeight(l_w, k, sg) ==
  IF l_w[k].trainable /\ enable_gradient_memory_opt
  THEN WeightInitialize(l_w[k],
         getSharedDataTensor(sg, l_w[k].dim, GradOffset(l_w, k)))
  ELSE WeightInitialize(l_w[k], EmptyTensor)

(* Manager::initialize *)
Initialize ==
  /\ shared_grad' = SharedGradTensor
  /\ weights' = [i \in 1..Len(weights) |->
                   [k \in 1..Len(weights[i]) |->
                      InitializedWeight(weights[i], k, SharedGradTensor)]]
  /\ UNCHANGED <<run_vars, node_vars, aux_vars>>
  /\ last' = Call("initialize", <<>>, 0, FALSE)
  /\ UNCHANGED <<max_weight_size, inout_vars, opt_vars>>

(* Manager::reset *)
Reset ==
  /\ weights' = <<>>
  /\ in_outs' = <<>>
  /\ max_weight_size' = 0
  /\ UNCHANGED <<run_vars, node_vars, aux_vars>>
  /\ last' = Call("reset", <<>>, 0, FALSE)
  /\ UNCHANGED <<max_derivative_size, shared_grad, shared_deriv, model_batch,
                 opt_vars>>

----------------------------------------------------------------------------
(* Input/output registration and allocation *)

(* Manager::setDerivativeMemoryOptimization *)
SetDerivativeMemoryOptimization(opt) ==
  /\ enable_derivative_memory_opt' = opt
  /\ UNCHANGED <<run_vars, node_vars, aux_vars>>
  /\ last' = Call("setDerivativeMemoryOptimization", <<>>, 0, opt)
  /\ UNCHANGED <<weight_vars, inout_vars, enable_gradient_memory_opt>>

(* The inout_derivative_size the loop of TrackLayerInOuts accumulates *)
InOutDerivativeSize(input_dim, trainable) ==
  SumSeq([k \in 1..Len(input_dim) |->
            IF trainable THEN getDataLen(input_dim[k]) ELSE 0])

(* Manager::TrackLayerInOuts *)
TrackLayerInOuts(layer_name, input_dim, trainable) ==
  /\ in_outs' = Append(in_outs,
                  [k \in 1..Len(input_dim) |->
                     Var_Grad(input_dim[k], trainable,
                              VarName(layer_name, k - 1))])
  /\ max_derivative_size' =
       Max(max_derivative_size, InOutDerivativeSize(input_dim, trainable))
  /\ UNCHANGED <<run_vars, node_vars, aux_vars>>
  /\ last' = Call("TrackLayerInOuts", layer_name, 0, trainable)
  /\ UNCHANGED <<weight_vars, shared_deriv, model_batch, opt_vars>>

(* Mutation: an entry matches when its first pair's name starts like the    *)
(* layer name                                                              *)
UntrackMatchesPrefix(layer_name) ==
  {cnt \in 1..Len(in_outs) :
     /\ in_outs[cnt] # <<>>
     /\ in_outs[cnt][1].name[1] = layer_name[1]}

(* The entries of in_outs the loop of untrackLayerInOuts matches *)
UntrackMatches(layer_name) ==
  {cnt \in 1..Len(in_outs) :
     /\ in_outs[cnt] # <<>>
     /\ in_outs[cnt][1].name = VarName(layer_name, 0)}

EraseAt(s, i) == SubSeq(s, 1, i - 1) \o SubSeq(s, i + 1, Len(s))

(* Mutation: the loop erases the last entry that matches *)
LastOf(S) == CHOOSE m \in S : \A x \in S : x <= m

Min(S) == CHOOSE m \in S : \A x \in S : m <= x

(* Manager::untrackLayerInOuts *)
UntrackLayerInOuts(layer_name) ==
  /\ in_outs' = IF UntrackMatches(layer_name) = {} THEN in_outs
                ELSE EraseAt(in_outs, Min(UntrackMatches(layer_name)))
  /\ UNCHANGED <<run_vars, node_vars, aux_vars>>
  /\ last' = Call("untrackLayerInOuts", layer_name, 0, FALSE)
  /\ UNCHANGED <<weight_vars, max_derivative_size, shared_deriv, model_batch,
                 opt_vars>>

(* The shared_deriv tensor of initializeInOuts() *)
SharedDerivTensor ==
  IF max_derivative_size > 0 /\ enable_derivative_memory_opt
  THEN NewTensor(max_derivative_size)
  ELSE EmptyTensor

(* Mutation: the offset is advanced before the pair is bound *)
DerivOffsetInclusive(l_io, k, trainable) ==
  SumSeq([j \in 1..k |->
            IF l_io[j].trainable /\ enable_derivative_memory_opt
            THEN getDataLen(l_io[j].dim) * (IF trainable THEN 1 ELSE 0)
            ELSE 0])

(* Mutation: the offset advances whatever the argument of the call *)
DerivOffsetIgnoringFlag(l_io, k, trainable) ==
  SumSeq([j \in 1..(k - 1) |->
            IF l_io[j].trainable /\ enable_derivative_memory_opt
            THEN getDataLen(l_io[j].dim) ELSE 0])

(* The offset the inner loop of initializeInOuts() has reached at pair k *)
DerivOffset(l_io, k, trainable) ==
  SumSeq([j \in 1..(k - 1) |->
            IF l_io[j].trainable /\ enable_derivative_memory_opt
            THEN getDataLen(l_io[j].dim) * (IF trainable THEN 1 ELSE 0)
            ELSE 0])

(* One pair of the loop of initializeInOuts() *)
InitializedInOut(l_io, k, sd, trainable) ==
  IF l_io[k].trainable /\ enable_derivative_memory_opt
  THEN VarGradInitialize(l_io[k],
         getSharedDataTensor(sd, l_io[k].dim, DerivOffset(l_io, k, trainable)),
         trainable)
  ELSE VarGradInitialize(l_io[k], EmptyTensor, trainable)

(* Manager::initializeInOuts *)
InitializeInOuts(trainable) ==
  /\ shared_deriv' = SharedDerivTensor
  /\ in_outs' = [i \in 1..Len(in_outs) |->
                   [k \in 1..Len(in_outs[i]) |->
                      InitializedInOut(in_outs[i], k, SharedDerivTensor,
                                       trainable)]]
  /\ UNCHANGED <<run_vars, node_vars, aux_vars>>
  /\ last' = Call("initializeInOuts", <<>>, 0, trainable)
  /\ UNCHANGED <<weight_vars, max_derivative_size, model_batch, opt_vars>>

(* Mutation: the division uses the batch the call is setting *)
RescaledAfterPropagate(batch) ==
  IF in_outs # <<>> /\ in_outs[1] # <<>>
  THEN (max_derivative_size \div batch) * batch
  ELSE max_derivative_size

(* The rescaled max_derivative_size of setBatchSize *)
RescaledDerivativeSize(batch) ==
  IF in_outs # <<>> /\ in_outs[1] # <<>>
  THEN (max_derivative_size \div DimBatch(in_outs[1][1].dim)) * batch
  ELSE max_derivative_size

(* Mutation: the loop starts at the second entry *)
PropagatedSkippingFirst(batch) ==
  [i \in 1..Len(in_outs) |->
     [k \in 1..Len(in_outs[i]) |->
        IF i = 1 THEN in_outs[i][k]
        ELSE VarGradSetBatchSize(in_outs[i][k], batch)]]

(* in_outs after the loop of setBatchSize over every pair *)
PropagatedInOuts(batch) ==
  [i \in 1..Len(in_outs) |->
     [k \in 1..Len(in_outs[i]) |->
        VarGradSetBatchSize(in_outs[i][k], batch)]]

(* Manager::setBatchSize *)
SetBatchSize(batch) ==
  /\ max_derivative_size' = RescaledDerivativeSize(batch)
  /\ in_outs' = PropagatedInOuts(batch)
  /\ model_batch' = batch
  /\ UNCHANGED <<run_vars, node_vars, aux_vars>>
  /\ last' = [Call("setBatchSize", <<>>, batch, FALSE) EXCEPT
                !.old_size = max_derivative_size,
                !.old_batch = IF in_outs # <<>> /\ in_outs[1] # <<>>
                              THEN DimBatch(in_outs[1][1].dim) ELSE 0,
                !.rep = (last.op = "setBatchSize" /\ last.batch = batch)]
  /\ UNCHANGED <<weight_vars, shared_deriv, opt_vars>>

----------------------------------------------------------------------------
(* The weight side of the Manager: registration, allocation, reset *)

NextWeights ==
  \/ \E w \in WeightPool :
       Len(weights) < MaxWeightNodes /\ TrackWeight(w)
  \/ \E ws \in SeqsUpTo(WeightPool, MaxWeightsPerNode) :
       Len(weights) < MaxWeightNodes /\ TrackWeights(ws)
  \/ Len(weights) < MaxWeightNodes /\ TrackWeights(BNWeights(<<1, 1, 1, 3>>))
  \/ \E opt \in BOOLEAN : SetGradientMemoryOptimization(opt)
  \/ Initialize
  \/ Reset

SpecWeights == Init /\ [][NextWeights]_vars

(* The input/output side of the Manager *)

NextInOuts ==
  \/ \E n \in LayerNames, t \in BOOLEAN :
     \E dims \in InputDimLists(model_batch, t) :
       Len(in_outs) < MaxInOutNodes /\ TrackLayerInOuts(n, dims, t)
  \/ \E n \in UntrackNames : UntrackLayerInOuts(n)
  \/ \E opt \in BOOLEAN : SetDerivativeMemoryOptimization(opt)
  \/ \E t \in BOOLEAN : InitializeInOuts(t)
  \/ \E b \in BatchSizes :
       RescaledDerivativeSize(b) <= MaxDerivativeSize /\ SetBatchSize(b)
  \/ Len(weights) < 1 /\ TrackWeights(<<Weight(<<1, 1, 1, 2>>, TRUE)>>)
  \/ Reset

SpecInOuts == Init /\ [][NextInOuts]_vars

----------------------------------------------------------------------------
(* One training step of a chain of time-distributed nodes over the buffers *)
(* the Manager bound: node n reads pair n (its input) and pair n + 1 (its  *)
(* output, the input of node n + 1); the output pair of the last node is   *)
(* not tracked by the Manager.                                             *)

RunWidths == {1, 2}
RunHeights == {1, 2}
RunWeightLists ==
  {<<>>, <<Weight(<<1, 1, 1, 2>>, TRUE)>>,
   <<Weight(<<1, 1, 1, 2>>, TRUE), Weight(<<1, 1, 1, 3>>, TRUE)>>}

RunLayerName(n) == <<"layer">> \o to_string(n)

NumNodes == Len(in_outs)

Garbage == <<0, 0>>

(* The gradient tensor of pair p *)
GradientRef(p) ==
  IF p <= NumNodes THEN in_outs[p][1].grad ELSE NewTensor(getDataLen(tdim[p].g))

(* Tensor::getData: the identity of the storage the tensor starts at *)
getData(t, owner) ==
  IF t.kind = "alias" THEN <<"arena", t.off>> ELSE <<"own", owner>>

VarData(p) == <<"own", <<p, "var">>>>
GradData(p) == getData(GradientRef(p), <<p, "grad">>)

(* Mutation: reshape leaves the dimension as it is *)
reshapeNothing(d) == d

(* reshape(m) of time_dist.cpp: {d[2], d[1], d[0], d[3]} *)
reshape(d) == <<d[3], d[2], d[1], d[4]>>

(* Element c of transposeTensor(m), m of dimension dim at offset off of mem *)
TransposedAt(mem, off, dim, c) ==
  LET r == c - off
      x == r % dim[4]
      q == r \div dim[4]
      j == q \div dim[1]
      i == q % dim[1]
  IN  mem[off + (i * dim[3] + j) * dim[4] + x + 1]

(* m.copy(transposeTensor(m)): the arena after the copy into m's storage *)
CopyTransposed(mem, t, dim) ==
  IF t.kind = "alias"
  THEN [c \in 1..Len(mem) |->
          IF (c - 1) \in Region(t, dim)
          THEN TransposedAt(mem, t.off, dim, c - 1)
          ELSE mem[c]]
  ELSE mem

(* TimeDistLayer::setPosition *)
setPosition(n) == <<VarData(n), GradData(n), VarData(n + 1), GradData(n + 1)>>

(* transposeInOut: is ret_ physically transposed *)
TransposesRet(n) == GradData(n) # positions[n][1]

(* transposeInOut: is derivative_ physically transposed *)
TransposesDerivative(n) ==
  \A i \in 1..3 : GradData(n + 1) # positions[n][i]

(* TimeDistLayer::transposeInOut: the derivative arena after it *)
MemAfterTransposeInOut(n) ==
  LET m1 == IF TransposesRet(n)
            THEN CopyTransposed(deriv_mem, GradientRef(n), tdim[n].g)
            ELSE deriv_mem
  IN  IF TransposesDerivative(n)
      THEN CopyTransposed(m1, GradientRef(n + 1), tdim[n + 1].g)
      ELSE m1

(* TimeDistLayer::transposeInOut: the dimensions after it *)
DimAfterTransposeInOut(n) ==
  [p \in DOMAIN tdim |->
     IF p = n THEN [v |-> reshape(tdim[p].v), g |-> reshape(tdim[p].g)]
     ELSE IF p = n + 1 THEN [v |-> reshape(tdim[p].v), g |-> reshape(tdim[p].g)]
     ELSE tdim[p]]

(* The window of timestep i of a time-major tensor t of dimension dim      *)
(* holds the elements of timestep i of the gradient of pair owner.         *)
WindowOk(mem, t, owner, dim, i) ==
  \/ t.kind # "alias"
  \/ \A bb \in 0..(dim[3] - 1) : \A x \in 0..(dim[4] - 1) :
       mem[t.off + i * dim[3] * dim[4] + bb * dim[4] + x + 1] =
         <<owner, (bb * dim[1] + i) * dim[4] + x>>

(* The arena after the inner layer wrote window i of t *)
WriteWindow(mem, t, owner, dim, i) ==
  IF t.kind = "alias"
  THEN [c \in 1..Len(mem) |->
          LET r == (c - 1) - (t.off + i * dim[3] * dim[4])
          IN  IF r >= 0 /\ r < dim[3] * dim[4]
              THEN <<owner, ((r \div dim[4]) * dim[1] + i) * dim[4] + (r % dim[4])>>
              ELSE mem[c]]
  ELSE mem

(* The loop of TimeDistLayer::calcDerivative from timestep i on: the inner *)
(* layer reads window i of derivative_ and writes window i of ret_.        *)
RECURSIVE DerivativeLoop(_, _, _, _, _)
DerivativeLoop(i, n, dims, mem, ok) ==
  IF i >= dims[n + 1].g[1] THEN [mem |-> mem, ok |-> ok]
  ELSE DerivativeLoop(i + 1, n, dims,
         WriteWindow(mem, GradientRef(n), n, dims[n].g, i),
         ok /\ WindowOk(mem, GradientRef(n + 1), n + 1, dims[n + 1].g, i))

(* Mutation: the windows advance by the width only *)
WindowByWidth(buf, size, dim, i) ==
  [buf |-> buf, size |-> size, off |-> i * dim[4],
   len |-> dim[1] * dim[2] * dim[3] * dim[4]]

(* getSharedDataTensor(dim, i * dim.batch() * dim.width()) of a buffer of   *)
(* size elements, dim the dimension of one timestep                         *)
Window(buf, size, dim, i) ==
  [buf |-> buf, size |-> size, off |-> i * dim[1] * dim[4],
   len |-> dim[1] * dim[2] * dim[3] * dim[4]]

(* The inner-layer calls of the loop of TimeDistLayer::forwarding *)
ForwardingCalls(n, dims) ==
  LET in_dim == dims[n].v
      ho_dim == dims[n + 1].v
      i_dim == <<in_dim[1], 1, 1, in_dim[4]>>
      h_dim == <<ho_dim[1], 1, 1, ho_dim[4]>>
  IN  [k \in 1..in_dim[3] |->
         [step |-> k - 1,
          windows |-> <<Window("in", getDataLen(in_dim), i_dim, k - 1),
                        Window("out", getDataLen(ho_dim), h_dim, k - 1)>>]]

(* The inner-layer calls of the loop of TimeDistLayer::calcDerivative *)
DerivativeCalls(n, dims) ==
  LET der_dim == dims[n + 1].g
      ret_dim == dims[n].g
      r_dim == <<ret_dim[3], 1, 1, ret_dim[4]>>
      d_dim == <<der_dim[3], 1, 1, der_dim[4]>>
  IN  [k \in 1..der_dim[1] |->
         [step |-> k - 1,
          windows |-> <<Window("ret", getDataLen(ret_dim), r_dim, k - 1),
                        Window("input", getDataLen(dims[n].v), r_dim, k - 1),
                        Window("derivative", getDataLen(der_dim), d_dim, k - 1),
                        Window("hval", getDataLen(dims[n + 1].v), d_dim, k - 1)>>]]

(* The inner-layer calls of the loop of TimeDistLayer::calcGradient *)
GradientCalls(n, dims, num_weights) ==
  LET der_dim == dims[n + 1].g
      in_dim == dims[n].v
      i_dim == <<in_dim[3], 1, 1, in_dim[4]>>
      d_dim == <<der_dim[3], 1, 1, der_dim[4]>>
  IN  IF num_weights = 0 THEN <<>>
      ELSE [k \in 1..der_dim[1] |->
              [step |-> k - 1,
               windows |-> <<Window("input", getDataLen(in_dim), i_dim, k - 1),
                             Window("derivative", getDataLen(der_dim), d_dim,
                                    k - 1)>>]]

(* TimeDistLayer::calcDerivative run on the arena contents mem and the      *)
(* dimensions dims                                                          *)
CalcDerivativeResult(n, mem, dims) ==
  LET loop == DerivativeLoop(0, n, dims, mem, TRUE)
      der_dim == dims[n + 1].g
      ret_dim == dims[n].g
  IN  [mem |-> CopyTransposed(loop.mem, GradientRef(n), ret_dim),
       ok |-> loop.ok,
       calls |-> DerivativeCalls(n, dims),
       dims |-> [dims EXCEPT
          ![n] = [v |-> <<ret_dim[3], 1, ret_dim[1], ret_dim[4]>>,
                  g |-> reshape(ret_dim)],
          ![n + 1] = [v |-> <<der_dim[3], 1, der_dim[1], der_dim[4]>>,
                      g |-> <<der_dim[3], 1, der_dim[1], der_dim[4]>>]]]

(* The cells of the gradient arena the weights of node n alias *)
WeightCells(n, j) ==
  IF weights[n][j].trainable /\ weights[n][j].grad.kind = "alias"
  THEN Region(weights[n][j].grad, weights[n][j].dim)
  ELSE {}

getNumWeights(n) == Len(weights[n])

Registering == run.stage = "build" /\ \A i \in 1..Len(weights) :
                 \A k \in 1..Len(weights[i]) : ~weights[i][k].init

(* A layer registers its weights ... *)
RunTrackWeights ==
  /\ Registering
  /\ Len(weights) = Len(in_outs)
  /\ Len(weights) < MaxRunNodes
  /\ \E ws \in RunWeightLists : TrackWeights(ws)

(* ... and the graph registers the layer's input *)
RunTrackLayerInOuts ==
  /\ Registering
  /\ Len(in_outs) < Len(weights)
  /\ \E h \in RunHeights, w \in RunWidths :
       /\ in_outs # <<>> => h = in_outs[1][1].dim[3]
       /\ TrackLayerInOuts(RunLayerName(Len(in_outs) + 1),
                           <<<<model_batch, 1, h, w>>>>, TRUE)

RunInitialize ==
  /\ Registering
  /\ weights # <<>>
  /\ Len(in_outs) = Len(weights)
  /\ Initialize

RunInitializeInOuts ==
  /\ run.stage = "build"
  /\ last.op = "initialize"
  /\ InitializeInOuts(TRUE)

(* The training step starts: the arenas hold nothing yet *)
StartTraining(w_out) ==
  /\ UNCHANGED <<node_vars, aux_vars>>
  /\ run.stage = "build"
  /\ last.op = "initializeInOuts"
  /\ run' = [stage |-> "forwarding", node |-> 1]
  /\ tdim' = [p \in 1..(NumNodes + 1) |->
                IF p <= NumNodes
                THEN [v |-> in_outs[p][1].dim, g |-> in_outs[p][1].dim]
                ELSE [v |-> <<model_batch, 1, in_outs[1][1].dim[3], w_out>>,
                      g |-> <<model_batch, 1, in_outs[1][1].dim[3], w_out>>]]
  /\ positions' = [n \in 1..NumNodes |-> <<>>]
  /\ deriv_mem' = [c \in 1..shared_deriv.cap |-> Garbage]
  /\ grad_mem' = [c \in 1..shared_grad.cap |-> Garbage]
  /\ lost' = {}
  /\ UNCHANGED inner
  /\ last' = Call("train", <<>>, 0, FALSE)
  /\ UNCHANGED <<weight_vars, inout_vars, opt_vars>>

(* TimeDistLayer::forwarding: records the positions; writes values only *)
Forwarding ==
  /\ UNCHANGED <<node_vars, aux_vars>>
  /\ run.stage = "forwarding"
  /\ positions' = [positions EXCEPT ![run.node] = setPosition(run.node)]
  /\ inner' = [op |-> "forwarding", node |-> run.node,
               calls |-> ForwardingCalls(run.node, tdim)]
  /\ run' = IF run.node < NumNodes
            THEN [run EXCEPT !.node = run.node + 1]
            ELSE [stage |-> "calcGradient", node |-> NumNodes]
  /\ last' = Call("forwarding", <<>>, 0, FALSE)
  /\ UNCHANGED <<weight_vars, inout_vars, opt_vars, tdim, deriv_mem, grad_mem,
                 lost>>

(* TimeDistLayer::calcGradient *)
CalcGradient ==
  /\ UNCHANGED <<node_vars, aux_vars>>
  /\ run.stage = "calcGradient"
  /\ LET n == run.node
         mem == MemAfterTransposeInOut(n)
         dims == DimAfterTransposeInOut(n)
         reads_ok == \A i \in 0..(dims[n + 1].g[1] - 1) :
                       WindowOk(mem, GradientRef(n + 1), n + 1, dims[n + 1].g, i)
     IN  /\ deriv_mem' = mem
         /\ tdim' = dims
         /\ inner' = [op |-> "calcGradient", node |-> n,
                      calls |-> GradientCalls(n, dims, getNumWeights(n))]
         /\ IF getNumWeights(n) = 0
            THEN UNCHANGED <<grad_mem, lost>>
            ELSE /\ grad_mem' =
                      [c \in 1..Len(grad_mem) |->
                         IF \E j \in 1..Len(weights[n]) : (c - 1) \in WeightCells(n, j)
                         THEN <<n, CHOOSE j \in 1..Len(weights[n]) :
                                     (c - 1) \in WeightCells(n, j)>>
                         ELSE grad_mem[c]]
                 /\ lost' = IF reads_ok THEN lost
                            ELSE lost \cup {<<"derivative", n + 1>>}
  /\ run' = [run EXCEPT !.stage = "calcDerivative"]
  /\ last' = Call("calcGradient", <<>>, 0, FALSE)
  /\ UNCHANGED <<weight_vars, inout_vars, opt_vars, positions>>

(* TimeDistLayer::calcDerivative *)
CalcDerivative ==
  /\ UNCHANGED <<node_vars, aux_vars>>
  /\ run.stage = "calcDerivative"
  /\ LET n == run.node
         res == CalcDerivativeResult(n, deriv_mem, tdim)
     IN  /\ deriv_mem' = res.mem
         /\ lost' = IF res.ok THEN lost ELSE lost \cup {<<"derivative", n + 1>>}
         /\ tdim' = res.dims
         /\ inner' = [op |-> "calcDerivative", node |-> n, calls |-> res.calls]
  /\ run' = [run EXCEPT !.stage = "applyGradients"]
  /\ last' = Call("calcDerivative", <<>>, 0, FALSE)
  /\ UNCHANGED <<weight_vars, inout_vars, opt_vars, positions, grad_mem>>

(* The weight gradients of the node are consumed before the next node runs *)
ApplyGradients ==
  /\ UNCHANGED <<node_vars, aux_vars>>
  /\ run.stage = "applyGradients"
  /\ LET n == run.node
         reads_ok == \A j \in 1..Len(weights[n]) : \A c \in WeightCells(n, j) :
                       grad_mem[c + 1] = <<n, j>>
     IN  lost' = IF reads_ok THEN lost ELSE lost \cup {<<"gradient", n>>}
  /\ run' = IF run.node > 1
            THEN [stage |-> "calcGradient", node |-> run.node - 1]
            ELSE [stage |-> "done", node |-> 0]
  /\ last' = Call("applyGradients", <<>>, 0, FALSE)
  /\ UNCHANGED <<weight_vars, inout_vars, opt_vars, tdim, positions, deriv_mem,
                 grad_mem, inner>>

NextRun ==
  \/ RunTrackWeights
  \/ RunTrackLayerInOuts
  \/ RunInitialize
  \/ RunInitializeInOuts
  \/ \E w_out \in RunWidths : StartTraining(w_out)
  \/ Forwarding
  \/ CalcGradient
  \/ CalcDerivative
  \/ ApplyGradients

SpecRun == Init /\ [][NextRun]_vars

----------------------------------------------------------------------------
(* LayerNode (src/nntrainer/layers/layer_node.cpp). A property string is    *)
(* the sequence of its tokens: <<"flatten", "=", "true">>.                  *)

ML_ERROR_NONE == "ML_ERROR_NONE"
ML_ERROR_INVALID_PARAMETER == "ML_ERROR_INVALID_PARAMETER"

manager_vars == <<weight_vars, inout_vars, opt_vars, last>>

(* The index of the first token c of s, 0 when there is none *)
IndexOf(s, c) ==
  IF \E i \in 1..Len(s) : s[i] = c
  THEN Min({i \in 1..Len(s) : s[i] = c})
  ELSE 0

(* getKeyValue: splits "key=value" at the "=" *)
getKeyValue(input_str) ==
  LET e == IndexOf(input_str, "=")
  IN  IF e < 2
      THEN [status |-> ML_ERROR_INVALID_PARAMETER, key |-> <<>>, value |-> <<>>]
      ELSE [status |-> ML_ERROR_NONE,
            key |-> SubSeq(input_str, 1, e - 1),
            value |-> SubSeq(input_str, e + 1, Len(input_str))]

(* split(value, reg): the pieces between the separators *)
RECURSIVE split(_, _)
split(value, sep) ==
  LET e == IndexOf(value, sep)
  IN  IF e = 0 THEN <<value>>
      ELSE <<SubSeq(value, 1, e - 1)>>
             \o split(SubSeq(value, e + 1, Len(value)), sep)

(* setBoolean *)
setBoolean(val, value) ==
  IF value = <<"true">> THEN [status |-> ML_ERROR_NONE, val |-> TRUE]
  ELSE IF value = <<"false">> THEN [status |-> ML_ERROR_NONE, val |-> FALSE]
  ELSE [status |-> ML_ERROR_INVALID_PARAMETER, val |-> val]

NumberOf(tok) ==
  IF tok = <<"1">> THEN 1 ELSE IF tok = <<"2">> THEN 2
  ELSE IF tok = <<"5">> THEN 5 ELSE IF tok = <<"8">> THEN 8 ELSE 0

(* TensorDim::setTensorDim(string): the numbers fill the last dimensions *)
setTensorDim(dim, value) ==
  LET words == split(value, ":")
      n == Len(words)
  IN  IF n > 4 \/ \E k \in 1..n : NumberOf(words[k]) = 0
      THEN [status |-> ML_ERROR_INVALID_PARAMETER, dim |-> dim]
      ELSE [status |-> ML_ERROR_NONE,
            dim |-> [k \in 1..4 |->
                       IF k > 4 - n THEN NumberOf(words[k - (4 - n)])
                       ELSE dim[k]]]

(* The keys the switch of LayerNode::setProperty(type, value) handles *)
NodeProperties ==
  {<<"input_shape">>, <<"name">>, <<"flatten">>, <<"distribute">>,
   <<"input_layers">>, <<"output_layers">>}

(* parseLayerProperty *)
parseLayerProperty(key) == IF Len(key) = 1 THEN key[1] ELSE "unknown"

(* LayerNode::getNumInputs *)
getNumInputs(nd) == Len(nd.input_layers)

ZeroDim == <<0, 0, 0, 0>>

(* std::vector::resize(1) *)
resize1(v) == IF v = <<>> THEN <<ZeroDim>> ELSE <<v[1]>>

Names(pieces) == [k \in 1..Len(pieces) |-> pieces[k]]

(* Mutation: the batch is always set back to 1 *)
CacheBatchSizeOne(in_dim) == 1

(* cache_batch_size: the batch of the dimension, 1 when it has none *)
CacheBatchSize(in_dim) == IF in_dim[1] # 0 THEN in_dim[1] ELSE 1

(* LayerNode::setProperty(type, value): the node after the call, whether   *)
(* the call threw, and whether it threw for a malformed node property      *)
SetPropertyTyped(nd, type, value) ==
  CASE type = "input_shape" ->
         IF getNumInputs(nd) > 1
         THEN [nd |-> nd, threw |-> TRUE, malformed |-> TRUE]
         ELSE LET dims == IF getNumInputs(nd) = 0 THEN resize1(nd.input_dim)
                          ELSE nd.input_dim
                  in_dim == dims[1]
                  cache_batch_size == CacheBatchSize(in_dim)
                  parsed == setTensorDim(
                              IF in_dim[1] # 0 THEN WithBatch(in_dim, 1)
                              ELSE in_dim, value)
              IN  [nd |-> [nd EXCEPT !.input_dim =
                             [dims EXCEPT ![1] =
                                WithBatch(parsed.dim, cache_batch_size)]],
                   threw |-> TRUE, malformed |-> FALSE]
    [] type = "name" ->
         [nd |-> [nd EXCEPT !.name = value], threw |-> FALSE,
          malformed |-> FALSE]
    [] type = "flatten" ->
         LET b == setBoolean(nd.flatten, value)
         IN  IF b.status # ML_ERROR_NONE
             THEN [nd |-> nd, threw |-> TRUE, malformed |-> TRUE]
             ELSE [nd |-> [nd EXCEPT !.flatten = b.val], threw |-> FALSE,
                   malformed |-> FALSE]
    [] type = "distribute" ->
         LET b == setBoolean(nd.distribute, value)
         IN  IF b.status # ML_ERROR_NONE
             THEN [nd |-> nd, threw |-> TRUE, malformed |-> TRUE]
             ELSE [nd |-> [nd EXCEPT !.distribute = b.val,
                                     !.wrap = IF b.val THEN @ + 1 ELSE @],
                   threw |-> FALSE, malformed |-> FALSE]
    [] type = "input_layers" ->
         [nd |-> [nd EXCEPT !.input_layers = Names(split(value, ",")),
                            !.layer_inputs = Len(split(value, ","))],
          threw |-> FALSE, malformed |-> FALSE]
    [] type = "output_layers" ->
         [nd |-> [nd EXCEPT !.output_layers = Names(split(value, ",")),
                            !.layer_outputs = Len(split(value, ","))],
          threw |-> FALSE, malformed |-> FALSE]
    [] OTHER -> [nd |-> nd, threw |-> TRUE, malformed |-> FALSE]

(* loadProperties(properties, props): sets the name and the trainable flag *)
(* and returns the other properties                                        *)
RECURSIVE loadProperties(_, _)
loadProperties(properties, nd) ==
  IF properties = <<>> THEN [nd |-> nd, left |-> <<>>]
  ELSE LET kv == getKeyValue(Head(properties))
           mine == kv.status = ML_ERROR_NONE /\ kv.value # <<>>
                     /\ kv.key \in {<<"name">>, <<"trainable">>}
           nd1 == IF ~mine THEN nd
                  ELSE IF kv.key = <<"name">> THEN [nd EXCEPT !.name = kv.value]
                  ELSE [nd EXCEPT !.trainable = setBoolean(@, kv.value).val]
           rest == loadProperties(Tail(properties), nd1)
       IN  [nd |-> rest.nd,
            left |-> IF mine THEN rest.left
                     ELSE <<Head(properties)>> \o rest.left]

(* Mutation: the remainder is collected in reverse *)
RemainderPushFront(remainder, property) == <<property>> \o remainder

(* remainder.push_back(properties[i]) *)
RemainderPush(remainder, property) == Append(remainder, property)

(* The loop of LayerNode::setProperty(properties) from entry i on *)
RECURSIVE SetPropertyLoop(_, _, _)
SetPropertyLoop(properties, i, acc) ==
  IF i > Len(properties) THEN acc
  ELSE LET kv == getKeyValue(properties[i])
       IN  IF kv.status # ML_ERROR_NONE
           THEN [acc EXCEPT !.status = kv.status, !.early = TRUE]
           ELSE IF kv.value = <<>>
           THEN [acc EXCEPT !.status = ML_ERROR_INVALID_PARAMETER,
                            !.early = TRUE]
           ELSE LET r == SetPropertyTyped(acc.nd, parseLayerProperty(kv.key),
                                          kv.value)
                IN  SetPropertyLoop(properties, i + 1,
                      [acc EXCEPT
                         !.nd = r.nd,
                         !.malformed = @ \/ r.malformed,
                         !.remainder = IF r.threw
                                       THEN RemainderPush(@, properties[i])
                                       ELSE @])

(* The record of a LayerNode call *)
NodeCall(op) ==
  [op |-> op, ctx |-> "none", batch |-> 0, status |-> ML_ERROR_NONE,
   threw |-> FALSE, early |-> FALSE, malformed |-> FALSE, rep |-> FALSE,
   properties |-> <<>>, remainder |-> <<>>, layer_status |-> ML_ERROR_NONE]

LayerTypes == {"fully_connected", "time_dist"}

(* LayerNode::LayerNode *)
CreateNode(kind, type, build_v2) ==
  /\ ~lnode.made
  /\ lnode' = [made |-> TRUE,
               layerv1 |-> kind = "v1",
               layer |-> kind = "v2",
               build_v2 |-> build_v2,
               finalized |-> FALSE,
               flatten |-> FALSE,
               type |-> type,
               distribute |-> (type = "time_dist"),
               wrap |-> 0,
               name |-> <<>>,
               trainable |-> TRUE,
               input_layers |-> <<>>,
               output_layers |-> <<>>,
               layer_inputs |-> 1,
               layer_outputs |-> 1,
               input_dim |-> <<>>,
               init_context |-> [input_dim |-> <<>>, batch |-> 0],
               run_context |-> [batch |-> 0]]
  /\ ncall' = NodeCall("create")
  /\ UNCHANGED <<manager_vars, run_vars, aux_vars>>

(* LayerNode::setProperty(std::vector<std::string>); layer_status is what  *)
(* the layer's setProperty returns for the remainder                       *)
NodeSetProperty(properties, layer_status) ==
  /\ lnode.made /\ lnode.layerv1
  /\ \E loaded \in {loadProperties(properties, lnode)} :
     \E res \in {SetPropertyLoop(loaded.left, 1,
                   [nd |-> loaded.nd, remainder |-> <<>>, malformed |-> FALSE,
                    status |-> ML_ERROR_NONE, early |-> FALSE])} :
         /\ (res.early \/ res.remainder = <<>>) => layer_status = ML_ERROR_NONE
         /\ lnode' = res.nd
         /\ ncall' = [NodeCall("setProperty") EXCEPT
                        !.status = IF res.early THEN res.status ELSE layer_status,
                        !.early = res.early,
                        !.malformed = res.malformed,
                        !.properties = properties,
                        !.remainder = res.remainder,
                        !.layer_status = layer_status]
  /\ UNCHANGED <<manager_vars, run_vars, aux_vars>>

(* Mutation: a failed finalize clears the flag *)
FinalizedOnlyOnSuccess(nd, threw) == ~threw

(* Mutation: the flag is set before the layer finalizes *)
FinalizedBeforeLayer(nd, threw) == TRUE

(* finalized after LayerNode::finalize(): set once the layer's finalize    *)
(* has returned                                                            *)
FinalizedAfter(nd, threw) == IF threw THEN nd.finalized ELSE TRUE

(* LayerNode::finalize; threw: the layer's finalize throws *)
NodeFinalize(threw) ==
  /\ lnode.made
  /\ threw => lnode.build_v2
  /\ lnode.build_v2 => lnode.layer
  /\ lnode' = [lnode EXCEPT
                 !.init_context =
                    [input_dim |-> lnode.input_dim,
                     batch |-> IF lnode.input_dim = <<>> THEN 0
                               ELSE DimBatch(lnode.input_dim[1])],
                 !.finalized = FinalizedAfter(lnode, threw)]
  /\ ncall' = [NodeCall("finalize") EXCEPT !.threw = threw,
                                            !.rep = lnode.finalized]
  /\ UNCHANGED <<manager_vars, run_vars, aux_vars>>

(* The context LayerNode::forwarding / calcDerivative / calcGradient pass *)
RunContextOf(nd) == "run"

(* LayerNode::forwarding *)
NodeForwarding ==
  /\ lnode.made /\ lnode.layer
  /\ ncall' = [NodeCall("forwarding") EXCEPT !.ctx = RunContextOf(lnode)]
  /\ UNCHANGED <<lnode, manager_vars, run_vars, aux_vars>>

(* LayerNode::calcDerivative *)
NodeCalcDerivative ==
  /\ lnode.made /\ lnode.layer
  /\ ncall' = [NodeCall("calcDerivative") EXCEPT !.ctx = RunContextOf(lnode)]
  /\ UNCHANGED <<lnode, manager_vars, run_vars, aux_vars>>

(* LayerNode::calcGradient *)
NodeCalcGradient ==
  /\ lnode.made /\ lnode.layer
  /\ ncall' = [NodeCall("calcGradient") EXCEPT !.ctx = RunContextOf(lnode)]
  /\ UNCHANGED <<lnode, manager_vars, run_vars, aux_vars>>

(* Mutation: setBatch always reaches the init context *)
BatchContextInit(nd) == "init"

(* The context LayerNode::setBatch dispatches to *)
BatchContext(nd) == IF nd.finalized THEN "run" ELSE "init"

(* LayerNode::setBatch *)
NodeSetBatch(batch) ==
  /\ lnode.made /\ lnode.layer
  /\ lnode' = IF BatchContext(lnode) = "run"
              THEN [lnode EXCEPT !.run_context.batch = batch]
              ELSE [lnode EXCEPT !.init_context.batch = batch]
  /\ ncall' = [NodeCall("setBatch") EXCEPT
                 !.ctx = BatchContext(lnode), !.batch = batch,
                 !.rep = (ncall.op = "setBatch" /\ ncall.batch = batch)]
  /\ UNCHANGED <<manager_vars, run_vars, aux_vars>>

(* LayerNode::read *)
NodeRead ==
  /\ lnode.made
  /\ ncall' = NodeCall("read")
  /\ UNCHANGED <<lnode, manager_vars, run_vars, aux_vars>>

(* LayerNode::save *)
NodeSave ==
  /\ lnode.made
  /\ ncall' = NodeCall("save")
  /\ UNCHANGED <<lnode, manager_vars, run_vars, aux_vars>>

PropertyPool ==
  {<<"flatten", "=", "true">>, <<"flatten", "=", "maybe">>,
   <<"unit", "=", "5">>, <<"epsilon", "=", "1">>, <<"flatten", "=">>,
   <<"bad">>, <<"name", "=", "fc">>,
   <<"input_shape", "=", "1", ":", "1", ":", "8">>,
   <<"input_layers", "=", "x", ",", "y">>}

NextNode ==
  \/ \E kind \in {"v1", "v2"}, type \in LayerTypes, build_v2 \in BOOLEAN :
       /\ kind = "v1" => (type = "fully_connected" /\ ~build_v2)
       /\ CreateNode(kind, type, build_v2)
  \/ \E properties \in SeqsUpTo(PropertyPool, MaxProperties),
        layer_status \in {ML_ERROR_NONE, ML_ERROR_INVALID_PARAMETER} :
       NodeSetProperty(properties, layer_status)
  \/ \E threw \in BOOLEAN : NodeFinalize(threw)
  \/ \E batch \in BatchSizes : NodeSetBatch(batch)
  \/ NodeForwarding
  \/ NodeCalcDerivative
  \/ NodeCalcGradient
  \/ NodeRead
  \/ NodeSave

SpecNode == Init /\ [][NextNode]_vars

----------------------------------------------------------------------------
(* A TimeDistLayer with any buffers bound to it. data is the storage each  *)
(* of its four tensors starts at, in the order input value (input_), input *)
(* gradient (ret_), output value (hval_), output gradient (derivative_).   *)

NumStorages == 4

StorageIds == 1..NumStorages

but_time_dist ==
  <<manager_vars, run_vars, node_vars, input_layer, data_buffer, store>>

(* transposeInOut: is ret_ copied from its transposition *)
CopiesRet(data, pos) == data[2] # pos[1]

(* transposeInOut: is hval_ copied from its transposition *)
CopiesHval(data, pos) == data[3] # pos[1] /\ data[3] # pos[2]

(* Mutation: derivative_ is compared with the first two positions only *)
CopiesDerivativeTwo(data, pos) == \A i \in 1..2 : data[4] # pos[i]

(* transposeInOut: is derivative_ copied from its transposition *)
CopiesDerivative(data, pos) == \A i \in 1..3 : data[4] # pos[i]

(* TimeDistLayer::transposeInOut: which of the four tensors are copied     *)
(* from their transposition; the others are only reshaped                  *)
TransposeInOutCopies(data, pos) ==
  <<TRUE, CopiesRet(data, pos), CopiesHval(data, pos),
    CopiesDerivative(data, pos)>>

(* The number of transposing copies into each storage *)
CopiesInto(data, copies) ==
  [id \in StorageIds |-> Cardinality({k \in 1..4 : data[k] = id /\ copies[k]})]

(* setInputBuffers / setOutputBuffers: the graph binds the four tensors *)
BindBuffers(data) ==
  /\ IF time_dist.made THEN time_dist.stage = "done" ELSE TRUE
  /\ time_dist' = [made |-> TRUE, stage |-> "bound", data |-> data,
                   positions |-> <<0, 0, 0, 0>>,
                   copies |-> <<FALSE, FALSE, FALSE, FALSE>>,
                   transposed |-> [id \in StorageIds |-> 0]]
  /\ UNCHANGED but_time_dist

(* TimeDistLayer::forwarding: setPosition() records where the tensors are *)
LayerForwarding ==
  /\ time_dist.made /\ time_dist.stage = "bound"
  /\ time_dist' = [time_dist EXCEPT !.stage = "forwarded",
                                    !.positions = time_dist.data]
  /\ UNCHANGED but_time_dist

(* TimeDistLayer::calcGradient: transposeInOut() *)
LayerCalcGradient ==
  /\ time_dist.made /\ time_dist.stage = "forwarded"
  /\ LET copies == TransposeInOutCopies(time_dist.data, time_dist.positions)
     IN  time_dist' = [time_dist EXCEPT
                         !.stage = "transposed",
                         !.copies = copies,
                         !.transposed = CopiesInto(time_dist.data, copies)]
  /\ UNCHANGED but_time_dist

(* TimeDistLayer::calcDerivative: ret_ is copied back, the others are      *)
(* reshaped                                                                *)
LayerCalcDerivative ==
  /\ time_dist.made /\ time_dist.stage = "transposed"
  /\ time_dist' = [time_dist EXCEPT !.stage = "done"]
  /\ UNCHANGED but_time_dist

NextTimeDist ==
  \/ \E data \in [1..4 -> StorageIds] : BindBuffers(data)
  \/ LayerForwarding
  \/ LayerCalcGradient
  \/ LayerCalcDerivative

SpecTimeDist == Init /\ [][NextTimeDist]_vars

----------------------------------------------------------------------------
(* Saving the weights of a node to a stream and reading them into a fresh  *)
(* node. A weight here is its shape (the number of elements) and its       *)
(* payload (the elements).                                                 *)

MaxStoredWeights == 2

MaxStoredLen == 2

Elems == {0, 1}

StoredWeights ==
  UNION {[shape : {n}, payload : [1..n -> Elems]] : n \in 1..MaxStoredLen}

but_store ==
  <<manager_vars, run_vars, node_vars, time_dist, input_layer, data_buffer>>

(* Weight::save: the raw elements, no shape *)
WeightSave(stream, w) == stream \o w.payload

(* Weight::read: as many elements as the weight's shape holds *)
WeightRead(stream, pos, w) ==
  [w EXCEPT !.payload = [e \in 1..w.shape |-> stream[pos + e - 1]]]

(* Mutation: the loop of read() runs from the last weight to the first *)
ReadOrderReversed(n) == [i \in 1..n |-> n + 1 - i]

(* The order in which the loop of read() visits the weights *)
ReadOrder(n) == [i \in 1..n |-> i]

(* The order in which the loop of save() visits the weights *)
SaveOrder(n) == [i \in 1..n |-> i]

(* The stream after the first i weights of the order were saved *)
RECURSIVE SaveLoop(_, _, _)
SaveLoop(ws, order, i) ==
  IF i = 0 THEN <<>>
  ELSE WeightSave(SaveLoop(ws, order, i - 1), ws[order[i]])

(* The weights and the stream position after the first i weights of the   *)
(* order were read                                                        *)
RECURSIVE ReadLoop(_, _, _, _)
ReadLoop(ws, order, i, stream) ==
  IF i = 0 THEN [weights |-> ws, pos |-> 1]
  ELSE LET before == ReadLoop(ws, order, i - 1, stream)
           w == before.weights[order[i]]
       IN  [weights |-> [before.weights EXCEPT
                           ![order[i]] = WeightRead(stream, before.pos, w)],
            pos |-> before.pos + w.shape]

(* Layer::save of a first-generation layer: its weights in their order *)
LayerSave(ws) == SaveLoop(ws, [i \in 1..Len(ws) |-> i], Len(ws))

(* Layer::read of a first-generation layer *)
LayerRead(ws, stream) == ReadLoop(ws, [i \in 1..Len(ws) |-> i], Len(ws), stream)

(* A node with weights is constructed and initialized *)
CreateStoredNode(v2, ws) ==
  /\ IF store.made THEN store.stage = "read" ELSE TRUE
  /\ store' = [made |-> TRUE, stage |-> "made", v2 |-> v2, weights |-> ws,
               stream |-> <<>>, fresh |-> <<>>, pos |-> 0]
  /\ UNCHANGED but_store

(* LayerNode::save to a new stream *)
SaveToStream ==
  /\ store.made /\ store.stage = "made"
  /\ store' = [store EXCEPT
       !.stage = "saved",
       !.stream = IF store.v2
                  THEN SaveLoop(store.weights, SaveOrder(Len(store.weights)),
                                Len(store.weights))
                  ELSE LayerSave(store.weights)]
  /\ UNCHANGED but_store

(* LayerNode::read from the start of the stream into a fresh node whose    *)
(* weights have the same shapes and hold the element e everywhere          *)
ReadFromStream(e) ==
  /\ store.made /\ store.stage = "saved"
  /\ LET fresh == [i \in 1..Len(store.weights) |->
                     [shape |-> store.weights[i].shape,
                      payload |-> [k \in 1..store.weights[i].shape |-> e]]]
     IN  \E res \in {IF store.v2
                     THEN ReadLoop(fresh, ReadOrder(Len(fresh)), Len(fresh),
                                   store.stream)
                     ELSE LayerRead(fresh, store.stream)} :
           store' = [store EXCEPT !.stage = "read", !.fresh = res.weights,
                                  !.pos = res.pos]
  /\ UNCHANGED but_store

NextStore ==
  \/ \E v2 \in BOOLEAN, ws \in SeqsUpTo(StoredWeights, MaxStoredWeights) :
       CreateStoredNode(v2, ws)
  \/ SaveToStream
  \/ \E e \in Elems : ReadFromStream(e)

SpecStore == Init /\ [][NextStore]_vars

----------------------------------------------------------------------------
(* InputLayer. call records the last call made on the layer, its argument  *)
(* and the exception it threw ("none" when it returned).                   *)

but_input_layer ==
  <<manager_vars, run_vars, node_vars, time_dist, data_buffer, store>>

InputLayerDims == {<<4, 1, 1, 8>>, <<4, 3, 2, 2>>}

BooleanWords == {<<"true">>, <<"false">>, <<"maybe">>, <<>>}

InputCall(op, arg, threw) == [op |-> op, arg |-> arg, threw |-> threw]

(* Mutation: setTrainable never refuses *)
SetTrainableNeverThrows(train) == FALSE

(* InputLayer::setTrainable: does it throw not_supported *)
SetTrainableThrows(train) == train

(* InputLayer::InputLayer *)
CreateInputLayer(dim) ==
  /\ ~input_layer.made
  /\ input_layer' = [made |-> TRUE, trainable |-> FALSE,
                     normalization |-> FALSE, standardization |-> FALSE,
                     augmentation |-> TRUE, input_dim |-> dim,
                     output_dim |-> <<0, 0, 0, 0>>,
                     call |-> InputCall("InputLayer", <<>>, "none")]
  /\ UNCHANGED but_input_layer

(* InputLayer::initialize *)
InputInitialize ==
  /\ input_layer.made
  /\ input_layer' = [input_layer EXCEPT
                       !.output_dim = input_layer.input_dim,
                       !.call = InputCall("initialize", <<>>, "none")]
  /\ UNCHANGED but_input_layer

(* InputLayer::setProperty(type, value) for the two properties it handles *)
InputSetProperty(type, value) ==
  /\ input_layer.made
  /\ type \in {"normalization", "standardization"}
  /\ LET b == setBoolean(input_layer[type], value)
         failed == value # <<>> /\ b.status # ML_ERROR_NONE
     IN  input_layer' = [input_layer EXCEPT
           ![type] = IF value # <<>> THEN b.val ELSE @,
           !.call = InputCall(type, value,
                      IF failed THEN "invalid_argument" ELSE "none")]
  /\ UNCHANGED but_input_layer

(* InputLayer::disableAugmentation *)
DisableAugmentation ==
  /\ input_layer.made
  /\ input_layer' = [input_layer EXCEPT
                       !.augmentation = FALSE,
                       !.call = InputCall("disableAugmentation", <<>>, "none")]
  /\ UNCHANGED but_input_layer

(* InputLayer::calcDerivative *)
InputCalcDerivative ==
  /\ input_layer.made
  /\ input_layer' = [input_layer EXCEPT
                       !.call = InputCall("calcDerivative", <<>>,
                                          "not_supported")]
  /\ UNCHANGED but_input_layer

(* InputLayer::setTrainable *)
InputSetTrainable(train) ==
  /\ input_layer.made
  /\ input_layer' =
       IF SetTrainableThrows(train)
       THEN [input_layer EXCEPT
               !.call = InputCall("setTrainable", train, "not_supported")]
       ELSE [input_layer EXCEPT
               !.trainable = FALSE,
               !.call = InputCall("setTrainable", train, "none")]
  /\ UNCHANGED but_input_layer

NextInputLayer ==
  \/ \E dim \in InputLayerDims : CreateInputLayer(dim)
  \/ InputInitialize
  \/ \E type \in {"normalization", "standardization"}, value \in BooleanWords :
       InputSetProperty(type, value)
  \/ DisableAugmentation
  \/ InputCalcDerivative
  \/ \E train \in BOOLEAN : InputSetTrainable(train)

SpecInputLayer == Init /\ [][NextInputLayer]_vars

----------------------------------------------------------------------------
(* DataBuffer_v2. call records the last call made on the buffer, its       *)
(* argument, the exception it threw ("none" when it returned) and the      *)
(* value it returned.                                                      *)

MaxDataBatch == 3

MaxBufferLen == 2

(* the most inputs or labels of a DataBuffer_v2, and the largest size in   *)
(* bytes of one of them                                                    *)
MaxSlots == 3

MaxBytes == 1

DataEntries == {5, 8}

but_data_buffer ==
  <<manager_vars, run_vars, node_vars, time_dist, input_layer, store>>

DataCall(op, arg, threw, ret) ==
  [op |-> op, arg |-> arg, threw |-> threw, ret |-> ret]

(* DataBuffer_v2::DataBuffer_v2 *)
CreateDataBuffer ==
  /\ ~data_buffer.made
  /\ data_buffer' = [made |-> TRUE, type |-> "DATA_BUFFER_UNKNOWN",
                     buffer_len |-> 1, total_data_entries |-> 0,
                     batch_size |-> 1,
                     label_size |-> <<0>>, input_size |-> <<0>>,
                     call |-> DataCall("DataBuffer_v2", 0, "none", 0)]
  /\ UNCHANGED but_data_buffer

(* DataBuffer_v2::setDataSource, of a file or of a generator callback *)
SetDataSource(type) ==
  /\ data_buffer.made
  /\ data_buffer' = [data_buffer EXCEPT
                       !.type = type,
                       !.total_data_entries = 0,
                       !.call = DataCall("setDataSource", 0, "none", 0)]
  /\ UNCHANGED but_data_buffer

(* DataBuffer_v2::init: a file based buffer learns how many entries the    *)
(* file holds                                                              *)
DataBufferInit(entries) ==
  /\ data_buffer.made
  /\ data_buffer' =
       IF data_buffer.type = "DATA_BUFFER_UNKNOWN"
       THEN [data_buffer EXCEPT
               !.call = DataCall("init", 0, "runtime_error", 0)]
       ELSE [data_buffer EXCEPT
               !.total_data_entries =
                  IF data_buffer.type = "DATA_BUFFER_FILE" THEN entries ELSE 0,
               !.call = DataCall("init", 0, "none", 0)]
  /\ UNCHANGED but_data_buffer

(* DataBuffer_v2::setBufferSize *)
SetBufferSize(n) ==
  /\ data_buffer.made
  /\ data_buffer' =
       IF n = 0
       THEN [data_buffer EXCEPT
               !.call = DataCall("setBufferSize", n, "invalid_argument", 0)]
       ELSE [data_buffer EXCEPT
               !.buffer_len = n,
               !.call = DataCall("setBufferSize", n, "none", 0)]
  /\ UNCHANGED but_data_buffer

(* DataBuffer_v2::setBatchSize *)
DataSetBatchSize(n) ==
  /\ data_buffer.made
  /\ data_buffer' =
       IF n = 0
       THEN [data_buffer EXCEPT
               !.call = DataCall("setBatchSize", n, "invalid_argument", 0)]
       ELSE [data_buffer EXCEPT
               !.batch_size = n,
               !.call = DataCall("setBatchSize", n, "none", 0)]
  /\ UNCHANGED but_data_buffer

(* Mutation: the last, partial batch is counted *)
TotalNumBatchesRoundedUp(entries, batch) == (entries + batch - 1) \div batch

(* The value getTotalNumBatches returns *)
TotalNumBatches(entries, batch) == entries \div batch

(* DataBuffer_v2::getTotalNumBatches *)
GetTotalNumBatches ==
  /\ data_buffer.made
  /\ data_buffer' =
       IF data_buffer.type # "DATA_BUFFER_FILE"
       THEN [data_buffer EXCEPT
               !.call = DataCall("getTotalNumBatches", 0, "runtime_error", 0)]
       ELSE IF data_buffer.total_data_entries = 0
       THEN [data_buffer EXCEPT
               !.call = DataCall("getTotalNumBatches", 0, "runtime_error", 0)]
       ELSE [data_buffer EXCEPT
               !.call = DataCall("getTotalNumBatches", 0, "none",
                          TotalNumBatches(data_buffer.total_data_entries,
                                          data_buffer.batch_size))]
  /\ UNCHANGED but_data_buffer

NextDataBuffer ==
  \/ CreateDataBuffer
  \/ \E type \in {"DATA_BUFFER_FILE", "DATA_BUFFER_GENERATOR"} :
       SetDataSource(type)
  \/ \E entries \in DataEntries : DataBufferInit(entries)
  \/ \E n \in 0..MaxBufferLen : SetBufferSize(n)
  \/ \E n \in 0..MaxDataBatch : DataSetBatchSize(n)
  \/ GetTotalNumBatches

SpecDataBuffer == Init /\ [][NextDataBuffer]_vars

----------------------------------------------------------------------------
(* The Manager under a graph that tracks its layers in their sorted order  *)
(* of execution: layer a has execution index 0, layer b execution index 1. *)

ExecutionIndex(layer_name) == IF layer_name = <<"a">> THEN 0 ELSE 1

(* The layer an entry was tracked for, read from its first pair's name *)
LayerOf(l_io) == <<l_io[1].name[1]>>

(* What a read outside in_outs yields: some entry that is none of the      *)
(* tracked ones                                                            *)
UndefinedEntry == <<Var_Grad(<<0, 0, 0, 0>>, FALSE, <<"undefined">>)>>

(* Manager::getInputsLayer: the entries the call can return; reading past  *)
(* the end of in_outs, or back() of an empty in_outs, is undefined         *)
getInputsLayer(layer_idx) ==
  IF layer_idx = -1
  THEN IF in_outs = <<>> THEN {UndefinedEntry}
       ELSE {in_outs[Len(in_outs)]}
  ELSE IF layer_idx + 1 \in 1..Len(in_outs) THEN {in_outs[layer_idx + 1]}
       ELSE {UndefinedEntry}

(* The graph tracks a layer, which has no entry yet, right after the       *)
(* layers that execute before it                                           *)
TrackSorted(layer_name, input_dim, trainable) ==
  /\ input_dim # <<>>
  /\ ExecutionIndex(layer_name) = Len(in_outs)
  /\ \A i \in 1..Len(in_outs) : LayerOf(in_outs[i]) # layer_name
  /\ TrackLayerInOuts(layer_name, input_dim, trainable)

NextSorted ==
  \/ \E n \in LayerNames, t \in BOOLEAN :
     \E dims \in InputDimLists(model_batch, t) :
       Len(in_outs) < MaxInOutNodes /\ TrackSorted(n, dims, t)
  \/ \E n \in LayerNames : UntrackLayerInOuts(n)
  \/ \E t \in BOOLEAN : InitializeInOuts(t)
  \/ \E b \in BatchSizes :
       RescaledDerivativeSize(b) <= MaxDerivativeSize /\ SetBatchSize(b)
  \/ Reset

SpecSorted == Init /\ [][NextSorted]_vars

----------------------------------------------------------------------------
(* A LayerNode under distribute properties. wrap counts the TimeDistLayer  *)
(* wrappers setProperty has put around the layer the node was made with.   *)

MaxWrapDepth == 3

DistributePool ==
  {<<"distribute", "=", "true">>, <<"distribute", "=", "false">>,
   <<"distribute", "=", "maybe">>}

(* LayerNode::getLayer: how many wrappers are around what it returns, and  *)
(* whether that is the layer the node was made with ("user") or the layer  *)
(* distributed by it ("dist")                                              *)
getLayer(nd) ==
  IF nd.distribute
  THEN IF nd.wrap > 0 THEN [wrappers |-> nd.wrap - 1, what |-> "user"]
       ELSE [wrappers |-> 0, what |-> "dist"]
  ELSE [wrappers |-> nd.wrap, what |-> "user"]

NextDistribute ==
  \/ \E type \in LayerTypes : CreateNode("v1", type, FALSE)
  \/ \E properties \in SeqsUpTo(DistributePool, MaxProperties),
        layer_status \in {ML_ERROR_NONE, ML_ERROR_INVALID_PARAMETER} :
       /\ lnode.made /\ lnode.wrap < MaxWrapDepth
       /\ NodeSetProperty(properties, layer_status)

SpecDistribute == Init /\ [][NextDistribute]_vars

----------------------------------------------------------------------------
(* A LayerNode under input_shape properties *)

ShapePool ==
  {<<"input_shape", "=", "1", ":", "1", ":", "8">>,
   <<"input_shape", "=", "2", ":", "5", ":", "1", ":", "8">>,
   <<"input_shape", "=", "5">>,
   <<"input_shape", "=", "x", ":", "1", ":", "8">>}

NodeInputDims == {<<4, 1, 1, 2>>, <<8, 1, 2, 5>>}

(* LayerNode::setInputDimension: the graph sets the input dimension *)
NodeSetInputDimension(dim) ==
  /\ lnode.made
  /\ lnode' = [lnode EXCEPT !.input_dim = <<dim>>]
  /\ ncall' = NodeCall("setInputDimension")
  /\ UNCHANGED <<manager_vars, run_vars, aux_vars>>

NextInputShape ==
  \/ \E type \in LayerTypes : CreateNode("v1", type, FALSE)
  \/ \E dim \in NodeInputDims : NodeSetInputDimension(dim)
  \/ \E properties \in SeqsUpTo(ShapePool, MaxProperties),
        layer_status \in {ML_ERROR_NONE, ML_ERROR_INVALID_PARAMETER} :
       NodeSetProperty(properties, layer_status)

SpecInputShape == Init /\ [][NextInputShape]_vars

----------------------------------------------------------------------------
(* The sizes of the inputs and labels of a DataBuffer_v2                   *)
(* (databuffer_v2.h 416-487)                                               *)

(* std::vector::resize(n, 0) *)
Resize(v, n) == [k \in 1..n |-> IF k <= Len(v) THEN v[k] ELSE 0]

(* DataBuffer_v2::setNumInputs *)
SetNumInputs(num_inputs) ==
  /\ data_buffer.made
  /\ data_buffer' =
       IF num_inputs = 0
       THEN [data_buffer EXCEPT
               !.call = DataCall("setNumInputs", <<num_inputs>>,
                                 "invalid_argument", 0)]
       ELSE [data_buffer EXCEPT
               !.input_size = IF num_inputs # Len(data_buffer.input_size)
                                THEN Resize(data_buffer.input_size, num_inputs)
                                ELSE data_buffer.input_size,
               !.call = DataCall("setNumInputs", <<num_inputs>>, "none", 0)]
  /\ UNCHANGED but_data_buffer

(* DataBuffer_v2::setNumLabels *)
SetNumLabels(num_labels) ==
  /\ data_buffer.made
  /\ data_buffer' =
       IF num_labels = 0
       THEN [data_buffer EXCEPT
               !.call = DataCall("setNumLabels", <<num_labels>>,
                                 "invalid_argument", 0)]
       ELSE [data_buffer EXCEPT
               !.label_size = IF num_labels # Len(data_buffer.label_size)
                                THEN Resize(data_buffer.label_size, num_labels)
                                ELSE data_buffer.label_size,
               !.call = DataCall("setNumLabels", <<num_labels>>, "none", 0)]
  /\ UNCHANGED but_data_buffer

(* DataBuffer_v2::setLabelSize; idx counts from 0 *)
SetLabelSize(bytes, idx) ==
  /\ data_buffer.made
  /\ data_buffer' =
       IF bytes = 0
       THEN [data_buffer EXCEPT
               !.call = DataCall("setLabelSize", <<bytes, idx>>,
                                 "invalid_argument", 0)]
       ELSE IF idx >= Len(data_buffer.label_size)
                /\ Len(data_buffer.label_size) > 1
       THEN [data_buffer EXCEPT
               !.call = DataCall("setLabelSize", <<bytes, idx>>,
                                 "invalid_argument", 0)]
       ELSE [data_buffer EXCEPT
               !.label_size =
                  [(IF idx >= Len(data_buffer.label_size)
                      THEN Resize(data_buffer.label_size, idx + 1)
                      ELSE data_buffer.label_size) EXCEPT ![idx + 1] = bytes],
               !.call = DataCall("setLabelSize", <<bytes, idx>>, "none", 0)]
  /\ UNCHANGED but_data_buffer

(* DataBuffer_v2::setInputSize; idx counts from 0.  The test of line 480   *)
(* is on label_size.size().                                                *)
SetInputSize(bytes, idx) ==
  /\ data_buffer.made
  /\ data_buffer' =
       IF bytes = 0
       THEN [data_buffer EXCEPT
               !.call = DataCall("setInputSize", <<bytes, idx>>,
                                 "invalid_argument", 0)]
       ELSE IF idx >= Len(data_buffer.input_size)
                /\ Len(data_buffer.label_size) > 1
       THEN [data_buffer EXCEPT
               !.call = DataCall("setInputSize", <<bytes, idx>>,
                                 "invalid_argument", 0)]
       ELSE [data_buffer EXCEPT
               !.input_size =
                  [(IF idx >= Len(data_buffer.input_size)
                      THEN Resize(data_buffer.input_size, idx + 1)
                      ELSE data_buffer.input_size) EXCEPT ![idx + 1] = bytes],
               !.call = DataCall("setInputSize", <<bytes, idx>>, "none", 0)]
  /\ UNCHANGED but_data_buffer

NextDataSizes ==
  \/ CreateDataBuffer
  \/ \E n \in 0..MaxSlots : SetNumInputs(n)
  \/ \E n \in 0..MaxSlots : SetNumLabels(n)
  \/ \E bytes \in 0..MaxBytes, idx \in 0..(MaxSlots - 1) :
       SetLabelSize(bytes, idx)
  \/ \E bytes \in 0..MaxBytes, idx \in 0..(MaxSlots - 1) :
       SetInputSize(bytes, idx)

SpecDataSizes == Init /\ [][NextDataSizes]_vars

-----------------------------------------------------------------------------
(* TimeDistLayer::initialize (time_dist.cpp 83-122).  Under this           *)
(* specification time_dist holds the layer as it is configured: the number *)
(* of its inputs, whether an inner layer is set, its input and output      *)
(* dimension, the calls its inner layer received and the outcome of the    *)
(* last initialize.                                                        *)

TimeDistInputDims ==
  {<<4, 1, 2, 2>>, <<4, 1, 1, 2>>, <<4, 3, 2, 2>>, <<2, 1, 2, 1>>, <<2, 1, 3, 2>>}
TimeDistOutputDims == {<<0, 0, 0, 0>>, <<4, 1, 2, 1>>, <<2, 1, 1, 1>>}
(* the output dimension of the inner layer after its initialize *)
InnerOutputDims == {<<4, 1, 1, 3>>, <<2, 1, 1, 1>>, <<4, 1, 1, 1>>, <<0, 0, 0, 0>>}

(* "input_shape = " + to_string(batch) + ":" + ... of lines 103-108 *)
InputShapeProperty(dist_dim) ==
  "input_shape = " \o ToString(dist_dim[1]) \o ":" \o ToString(dist_dim[2])
    \o ":" \o ToString(dist_dim[3]) \o ":" \o ToString(dist_dim[4])

(* Mutation: the channel of the input is not looked at *)
InitializeFailsIgnoringChannel(td) ==
  IF td.num_inputs # 1 THEN TRUE
  ELSE ~td.dist_layer

(* the three throws of lines 86-97 *)
InitializeFails(td) ==
  IF td.num_inputs # 1 THEN TRUE
  ELSE IF ~td.dist_layer THEN TRUE
  ELSE td.input_dim[1][2] # 1

(* a TimeDistLayer with its inputs and, possibly, its inner layer set *)
ConfigureTimeDist(num_inputs, dist_layer, dim, out) ==
  /\ IF time_dist.made THEN time_dist.stage = "called" ELSE TRUE
  /\ time_dist' = [made |-> TRUE, stage |-> "configured",
                   num_inputs |-> num_inputs, dist_layer |-> dist_layer,
                   input_dim |-> [k \in 1..num_inputs |-> dim],
                   output_dim |-> out,
                   inner_calls |-> <<>>,
                   call |-> [op |-> "none"]]
  /\ UNCHANGED but_time_dist

(* TimeDistLayer::initialize(manager); inner_throws: the inner layer's     *)
(* initialize throws, inner_out: the output dimension it ends with         *)
TimeDistInitialize(inner_out, inner_throws) ==
  /\ time_dist.made /\ time_dist.stage = "configured"
  /\ IF InitializeFails(time_dist)
       THEN time_dist' = [time_dist EXCEPT
                            !.stage = "called",
                            !.call = [op |-> "initialize",
                                      threw |-> "invalid_argument"]]
       ELSE LET dist_dim == [time_dist.input_dim[1] EXCEPT ![3] = 1]
                calls == <<[op |-> "setProperty",
                            arg |-> <<InputShapeProperty(dist_dim)>>],
                           [op |-> "setBatch", arg |-> <<dist_dim[1]>>],
                           [op |-> "initialize", arg |-> <<>>]>>
            IN  IF inner_throws
                  THEN time_dist' = [time_dist EXCEPT
                                       !.stage = "called",
                                       !.inner_calls = calls,
                                       !.call = [op |-> "initialize",
                                                 threw |-> "inner"]]
                  ELSE time_dist' = [time_dist EXCEPT
                                       !.stage = "called",
                                       !.inner_calls = calls,
                                       !.output_dim =
                                         [inner_out EXCEPT
                                            ![3] = time_dist.input_dim[1][3]],
                                       !.call = [op |-> "initialize",
                                                 threw |-> "none",
                                                 ret |-> 0,
                                                 inner_out |-> inner_out]]
  /\ UNCHANGED but_time_dist

NextTimeDistInit ==
  \/ \E num_inputs \in 0..2, dist_layer \in BOOLEAN,
        dim \in TimeDistInputDims, out \in TimeDistOutputDims :
       ConfigureTimeDist(num_inputs, dist_layer, dim, out)
  \/ \E inner_out \in InnerOutputDims, inner_throws \in BOOLEAN :
       TimeDistInitialize(inner_out, inner_throws)

SpecTimeDistInit == Init /\ [][NextTimeDistInit]_vars

-----------------------------------------------------------------------------
(* What the maxima are meant to be *)

TrainableElems(node) ==
  SumSeq([k \in 1..Len(node) |->
            IF node[k].trainable THEN getDataLen(node[k].dim) ELSE 0])

TrueMaxWeightSize == SetMax({TrainableElems(weights[i]) : i \in 1..Len(weights)})

TrueMaxDerivativeSize ==
  SetMax({TrainableElems(in_outs[i]) : i \in 1..Len(in_outs)})

Disjoint(A, B) == A \cap B = {}

(* No pair of in_outs carries a name generated for layer_name *)
NoPairOf(layer_name) ==
  \A i \in 1..Len(in_outs) : \A k \in 1..Len(in_outs[i]) :
    \A c \in 0..Len(in_outs[i]) : in_outs[i][k].name # VarName(layer_name, c)

----------------------------------------------------------------------------
(* C1: under strictly sequential execution no value written into the      *)
(* gradient arena or the derivative arena is overwritten by another        *)
(* tensor's write before its last read.                                    *)
C1_NoValueLostBeforeLastRead == lost = {}

(* C2: after any sequence of trackWeight / trackWeights calls,             *)
(* max_weight_size equals the maximum over the registered nodes of the sum *)
(* of the element counts of the node's trainable weights.                  *)
C2_MaxWeightSizeIsTrueMax == max_weight_size = TrueMaxWeightSize

(* C3: after initialize() with gradient sharing enabled, two distinct      *)
(* trainable weights of one node have disjoint aliased gradient regions.   *)
C3_SameNodeRegionsDisjoint ==
  (last.op = "initialize" /\ enable_gradient_memory_opt) =>
    \A i \in 1..Len(weights) : \A k, j \in 1..Len(weights[i]) :
      (k # j /\ weights[i][k].trainable /\ weights[i][j].trainable) =>
        /\ weights[i][k].grad.kind = "alias"
        /\ weights[i][j].grad.kind = "alias"
        /\ Disjoint(Region(weights[i][k].grad, weights[i][k].dim),
                    Region(weights[i][j].grad, weights[i][j].dim))

C3_Witness ==
  /\ last.op = "initialize" /\ enable_gradient_memory_opt
  /\ Len(weights) = 2
  /\ Len(weights[1]) = 2
  /\ weights[1][1].trainable /\ weights[1][2].trainable
  /\ weights[1][2].grad.off = getDataLen(weights[1][1].dim)
  /\ weights[2][1].trainable
  /\ ~Disjoint(Region(weights[1][1].grad, weights[1][1].dim),
               Region(weights[2][1].grad, weights[2][1].dim))

(* C4: after reset() both tracked lists are empty and both maxima are zero *)
C4_ResetZeroesEverything ==
  last.op = "reset" =>
    /\ weights = <<>>
    /\ in_outs = <<>>
    /\ max_weight_size = 0
    /\ max_derivative_size = 0

(* C5: after setBatchSize(b), max_derivative_size equals the maximum over  *)
(* the tracked nodes of the sum of the element counts of the node's        *)
(* trainable pairs at batch b.                                             *)
C5_SetBatchSizeKeepsTrueMax ==
  last.op = "setBatchSize" => max_derivative_size = TrueMaxDerivativeSize

(* C6: setBatchSize(b) turns max_derivative_size into (old value / batch   *)
(* of the first tracked pair before the call) * b, and leaves the number   *)
(* and order of tracked nodes, the weights and max_weight_size alone.      *)
C6_RescaleBeforePropagate ==
  [][last'.op = "setBatchSize" =>
       /\ (in_outs # <<>> /\ in_outs[1] # <<>>) =>
            max_derivative_size' =
              (max_derivative_size \div in_outs[1][1].dim[1]) * last'.batch
       /\ Len(in_outs') = Len(in_outs)
       /\ \A i \in 1..Len(in_outs) :
            /\ Len(in_outs'[i]) = Len(in_outs[i])
            /\ \A k \in 1..Len(in_outs[i]) :
                 in_outs'[i][k].name = in_outs[i][k].name
       /\ weights' = weights
       /\ max_weight_size' = max_weight_size]_vars

(* 32 elements at batch 4 become 64 after setBatchSize(8) *)
C6_Witness ==
  /\ last.op = "setBatchSize" /\ last.batch = 8
  /\ last.old_size = 32 /\ last.old_batch = 4
  /\ max_derivative_size = 64
  /\ Len(in_outs) = 2
  /\ weights # <<>>

(* C7: a second setBatchSize(b) right after setBatchSize(b) changes no     *)
(* pair's shape and not max_derivative_size.                               *)
C7_SetBatchSizeIdempotent ==
  [][(last.op = "setBatchSize" /\ last'.op = "setBatchSize"
        /\ last'.batch = last.batch) =>
       (in_outs' = in_outs /\ max_derivative_size' = max_derivative_size)]_vars

C7_Witness ==
  /\ last.op = "setBatchSize" /\ last.rep
  /\ last.batch # 4
  /\ in_outs # <<>> /\ in_outs[1] # <<>>
  /\ in_outs[1][1].trainable
  /\ max_derivative_size > 0

(* C8: after initialize(), with gradient sharing enabled and               *)
(* max_weight_size > 0 the one gradient arena has max_weight_size elements *)
(* and every aliased gradient views it; otherwise there is no arena.       *)
C8_OneGradArenaOfMaxWeightSize ==
  last.op = "initialize" =>
    IF enable_gradient_memory_opt /\ max_weight_size > 0
    THEN /\ shared_grad = NewTensor(max_weight_size)
         /\ \A i \in 1..Len(weights) : \A k \in 1..Len(weights[i]) :
              /\ weights[i][k].grad.kind = "alias" =>
                   weights[i][k].grad.cap = max_weight_size
              /\ weights[i][k].grad.kind # "own"
    ELSE shared_grad = EmptyTensor

C8_Witness ==
  /\ last.op = "initialize" /\ enable_gradient_memory_opt
  /\ Len(weights) = 2
  /\ TrainableElems(weights[1]) > TrainableElems(weights[2])
  /\ TrainableElems(weights[2]) > 0
  /\ max_weight_size = TrainableElems(weights[1])
  /\ shared_grad = NewTensor(TrainableElems(weights[1]))

(* C9: after initializeInOuts(true) with derivative sharing enabled, every *)
(* trainable pair's derivative is an alias into the one arena of           *)
(* max_derivative_size elements, the first pair of a node at offset 0.     *)
C9_DerivativesAliasOneArena ==
  (last.op = "initializeInOuts" /\ last.flag /\ enable_derivative_memory_opt) =>
    \A i \in 1..Len(in_outs) : \A k \in 1..Len(in_outs[i]) :
      in_outs[i][k].trainable =>
        /\ shared_deriv = NewTensor(max_derivative_size)
        /\ in_outs[i][k].grad.kind = "alias"
        /\ in_outs[i][k].grad.cap = max_derivative_size
        /\ (k = 1 => in_outs[i][k].grad.off = 0)

(* two nodes of one pair of shape 4:1:1:8: a 32-element arena, offsets 0 *)
C9_Witness ==
  /\ last.op = "initializeInOuts" /\ last.flag /\ enable_derivative_memory_opt
  /\ Len(in_outs) = 2
  /\ \A i \in 1..2 :
       /\ Len(in_outs[i]) = 1
       /\ in_outs[i][1].trainable
       /\ in_outs[i][1].dim = <<4, 1, 1, 8>>
       /\ in_outs[i][1].grad = [kind |-> "alias", cap |-> 32, off |-> 0]
  /\ shared_deriv = NewTensor(32)
  /\ max_derivative_size = 32

(* C10: untrackLayerInOuts of a name no tracked pair was generated for     *)
(* changes neither the tracked lists nor the maxima.                       *)
C10_UntrackUnknownIsNoOp ==
  [][(last'.op = "untrackLayerInOuts" /\ NoPairOf(last'.name)) =>
       UNCHANGED <<in_outs, weights, max_weight_size, max_derivative_size>>]_vars

C10_Witness ==
  /\ last.op = "untrackLayerInOuts"
  /\ NoPairOf(last.name)
  /\ Len(in_outs) = 2
  /\ in_outs[1] # <<>> /\ in_outs[2] # <<>>
  /\ weights # <<>>
  /\ max_derivative_size > 0

(* C11: after initialize(), a weight that is not trainable, and every       *)
(* weight when gradient sharing is disabled, holds no alias into the shared *)
(* gradient arena (a trainable one holds a private gradient of its own      *)
(* shape); only trainable weights under enabled sharing are aliased.        *)
C11_OnlyTrainableSharedAreAliased ==
  last.op = "initialize" =>
    \A i \in 1..Len(weights) : \A k \in 1..Len(weights[i]) :
      LET w == weights[i][k]
      IN  /\ w.grad.kind = "alias" <=> (w.trainable /\ enable_gradient_memory_opt)
          /\ (w.trainable /\ ~enable_gradient_memory_opt) =>
                w.grad = NewTensor(getDataLen(w.dim))

(* of the four weights of a batch-normalization node only gamma and beta   *)
(* are aliased                                                             *)
C11_Witness ==
  /\ last.op = "initialize" /\ enable_gradient_memory_opt
  /\ weights # <<>>
  /\ Len(weights[1]) = 4
  /\ ~weights[1][1].trainable /\ weights[1][1].grad.kind # "alias"
  /\ ~weights[1][2].trainable /\ weights[1][2].grad.kind # "alias"
  /\ weights[1][3].grad = [kind |-> "alias", cap |-> 6, off |-> 0]
  /\ weights[1][4].grad = [kind |-> "alias", cap |-> 6, off |-> 3]

(* C19: for a node whose inner layer has no weights, calcDerivative reads   *)
(* and produces the same whether or not calcGradient ran before it.         *)
C19_CalcDerivativeIgnoresCalcGradient ==
  (run.stage = "calcGradient" /\ getNumWeights(run.node) = 0) =>
    CalcDerivativeResult(run.node, deriv_mem, tdim) =
      CalcDerivativeResult(run.node, MemAfterTransposeInOut(run.node),
                           DimAfterTransposeInOut(run.node))

(* Timesteps of the model, and the width of a buffer of the last call *)
Timesteps == in_outs[1][1].dim[3]

WidthOf(buf) ==
  IF buf \in {"in", "ret", "input"}
  THEN in_outs[inner.node][1].dim[4]
  ELSE tdim[inner.node + 1].g[4]

(* calls holds one call per timestep, in ascending order, each buffer a    *)
(* window of batch * width elements at offset i * batch * width, inside    *)
(* the buffer, windows of distinct timesteps disjoint.                     *)
OncePerTimestep(calls) ==
  /\ Len(calls) = Timesteps
  /\ \A k \in 1..Len(calls) :
       /\ calls[k].step = k - 1
       /\ \A j \in 1..Len(calls[k].windows) :
            LET win == calls[k].windows[j]
            IN  /\ win.len = model_batch * WidthOf(win.buf)
                /\ win.off = (k - 1) * model_batch * WidthOf(win.buf)
                /\ win.off + win.len <= win.size
                /\ \A m \in 1..Len(calls) :
                     m # k =>
                       Disjoint(win.off..(win.off + win.len - 1),
                                calls[m].windows[j].off..
                                  (calls[m].windows[j].off
                                     + calls[m].windows[j].len - 1))

(* C20 as stated: in forwarding, calcDerivative and calcGradient the inner *)
(* layer is invoked exactly once per timestep, in ascending order, on the  *)
(* window of batch * width elements at offset i * batch * width; windows   *)
(* of distinct timesteps are disjoint and lie inside their buffer.         *)
C20_InnerOncePerTimestepAlways ==
  inner.op # "none" => OncePerTimestep(inner.calls)

(* C20, amended: the same for forwarding, calcDerivative, and calcGradient *)
(* of an inner layer that has weights; calcGradient of an inner layer      *)
(* without weights invokes it not at all.                                  *)
C20_InnerOncePerTimestep ==
  /\ (inner.op \in {"forwarding", "calcDerivative"}
        \/ (inner.op = "calcGradient" /\ getNumWeights(inner.node) # 0)) =>
       OncePerTimestep(inner.calls)
  /\ (inner.op = "calcGradient" /\ getNumWeights(inner.node) = 0) =>
       inner.calls = <<>>

C20_Witness ==
  /\ inner.op = "calcGradient"
  /\ getNumWeights(inner.node) # 0
  /\ Timesteps = 2
  /\ Len(inner.calls) = 2
  /\ inner.calls[2].windows[1].off = 8
  /\ inner.calls[2].windows[2].off = 4

(* The state of the node that setProperty is about *)
NodeState(nd) ==
  <<nd.name, nd.trainable, nd.flatten, nd.distribute, nd.wrap,
    nd.layer_inputs, nd.layer_outputs, nd.input_layers, nd.output_layers,
    nd.input_dim>>

(* A well-formed property whose key the node does not handle *)
Unrecognized(property) ==
  LET kv == getKeyValue(property)
  IN  /\ kv.status = ML_ERROR_NONE
      /\ kv.value # <<>>
      /\ kv.key \notin NodeProperties \cup {<<"trainable">>}

(* A property the list overload returns on before the loop has finished *)
Unparsable(property) ==
  getKeyValue(property).status # ML_ERROR_NONE
    \/ getKeyValue(property).value = <<>>

(* C12: a LayerNode starts unfinalized, and once finalized stays finalized *)
(* whatever is called on it.                                               *)
C12_FinalizedIsStable ==
  [][/\ (~lnode.made /\ lnode'.made) => ~lnode'.finalized
     /\ (lnode.made /\ lnode.finalized) => lnode'.finalized]_vars

(* a repeated finalize() whose layer throws leaves the flag set *)
C12_Witness ==
  /\ lnode.made /\ lnode.finalized
  /\ ncall.op = "finalize" /\ ncall.rep /\ ncall.threw

(* C13: forwarding, calcDerivative and calcGradient target the init        *)
(* context before finalize() and the run context after it.                 *)
C13_ContextFollowsFinalized ==
  (lnode.made /\ ncall.op \in {"forwarding", "calcDerivative", "calcGradient"})
    => ncall.ctx = (IF lnode.finalized THEN "run" ELSE "init")

(* C14: setBatch(n) reaches the init context, and only it, when the node   *)
(* is unfinalized and the run context, and only it, when finalized; a      *)
(* second setBatch(n) leaves the node as the first left it.                *)
C14_SetBatchDispatches ==
  [][ncall'.op = "setBatch" =>
       /\ IF lnode.finalized
          THEN /\ ncall'.ctx = "run"
               /\ lnode'.run_context.batch = ncall'.batch
               /\ lnode'.init_context = lnode.init_context
          ELSE /\ ncall'.ctx = "init"
               /\ lnode'.init_context.batch = ncall'.batch
               /\ lnode'.run_context = lnode.run_context
       /\ lnode'.finalized = lnode.finalized
       /\ (ncall.op = "setBatch" /\ ncall.batch = ncall'.batch) =>
            lnode' = lnode]_vars

C14_Witness ==
  /\ lnode.made /\ lnode.finalized
  /\ ncall.op = "setBatch" /\ ncall.rep /\ ncall.batch = 8
  /\ lnode.run_context.batch = 8
  /\ lnode.init_context.batch # 8

(* C15: a finalize() whose layer throws on an unfinalized node leaves the  *)
(* node unfinalized.                                                       *)
C15_FailedFinalizeStaysUnfinalized ==
  [][(ncall'.op = "finalize" /\ ncall'.threw /\ ~lnode.finalized) =>
       ~lnode'.finalized]_vars

C15_Witness ==
  /\ lnode.made /\ ~lnode.finalized
  /\ ncall.op = "finalize" /\ ncall.threw

(* C16: a setProperty call that fails leaves the node's state as it was    *)
(* before the call.                                                        *)
C16_FailedSetPropertyChangesNothing ==
  [][(ncall'.op = "setProperty" /\ ncall'.status # ML_ERROR_NONE) =>
       NodeState(lnode') = NodeState(lnode)]_vars

C18_MalformedValueFails ==
  (ncall.op = "setProperty" /\ ncall.malformed) =>
    ncall.status # ML_ERROR_NONE

(* C21: transposeInOut copies the transposition into a tensor exactly when *)
(* no earlier tensor of the order input value, input gradient, output      *)
(* value, output gradient starts at the same storage, and only reshapes it *)
(* otherwise: every distinct storage is transposed exactly once.           *)
C21_EachStorageTransposedOnce ==
  (time_dist.made /\ time_dist.stage = "transposed") =>
    /\ \A k \in 1..4 :
         time_dist.copies[k] <=>
           (\A j \in 1..(k - 1) : time_dist.data[j] # time_dist.data[k])
    /\ \A id \in StorageIds :
         time_dist.transposed[id] =
           (IF \E k \in 1..4 : time_dist.data[k] = id THEN 1 ELSE 0)

(* the output gradient shares the storage of the output value only *)
C21_Witness ==
  /\ time_dist.made /\ time_dist.stage = "transposed"
  /\ time_dist.data = <<1, 2, 3, 3>>
  /\ time_dist.copies = <<TRUE, TRUE, TRUE, FALSE>>

(* C22: a Var_Grad just created by TrackLayerInOuts has the dimension it   *)
(* was given; its gradient is the empty sentinel when it was created not   *)
(* trainable and a tensor of the value's dimension when created trainable. *)
C22_CreatedVarGrad ==
  last.op = "TrackLayerInOuts" =>
    LET l_io == in_outs[Len(in_outs)]
    IN  \E input_dim \in InputDimLists(model_batch, last.flag) :
          /\ Len(l_io) = Len(input_dim)
          /\ \A k \in 1..Len(l_io) :
               /\ l_io[k].dim = input_dim[k]
               /\ l_io[k].trainable = last.flag
               /\ ~last.flag => l_io[k].grad = EmptyTensor
               /\ last.flag =>
                    l_io[k].grad = NewTensor(getDataLen(input_dim[k]))

(* a non-trainable pair and then two trainable pairs were created *)
C22_Witness ==
  /\ last.op = "TrackLayerInOuts" /\ last.flag
  /\ Len(in_outs) = 2
  /\ Len(in_outs[1]) = 1 /\ ~in_outs[1][1].trainable
  /\ in_outs[1][1].grad = EmptyTensor
  /\ Len(in_outs[2]) = 2 /\ in_outs[2][2].grad = NewTensor(model_batch * 3)

(* C23: after save() to a stream and read() from it into a fresh node of   *)
(* the same weight shapes, every weight of the fresh node holds the        *)
(* payload of the saved weight of the same index; the stream holds the     *)
(* payloads only, in index order, and read() consumed all of it.           *)
C23_SaveReadRoundTrip ==
  (store.made /\ store.stage = "read") =>
    /\ store.fresh = store.weights
    /\ Len(store.stream) =
         SumSeq([i \in 1..Len(store.weights) |-> store.weights[i].shape])
    /\ store.pos = Len(store.stream) + 1
    /\ \A i \in 1..Len(store.weights) :
         \A k \in 1..store.weights[i].shape :
           store.stream[SumSeq([j \in 1..(i - 1) |->
                                  store.weights[j].shape]) + k]
             = store.weights[i].payload[k]

(* two weights of different shapes and payloads went through the stream *)
C23_Witness ==
  /\ store.made /\ store.stage = "read" /\ store.v2
  /\ Len(store.weights) = 2
  /\ store.weights[1].payload = <<1>>
  /\ store.weights[2].payload = <<0, 1>>
  /\ store.fresh[2].payload = <<0, 1>>

(* C24: calcDerivative of an InputLayer always fails as not supported;     *)
(* setTrainable(true) fails as not supported and setTrainable(false)       *)
(* returns; the layer is not trainable after either, nor at any time.      *)
C24_InputLayerRefusesTraining ==
  input_layer.made =>
    /\ ~input_layer.trainable
    /\ input_layer.call.op = "calcDerivative" =>
         input_layer.call.threw = "not_supported"
    /\ input_layer.call.op = "setTrainable" =>
         input_layer.call.threw =
           (IF input_layer.call.arg THEN "not_supported" ELSE "none")

(* setTrainable(true) was refused on an initialized layer *)
C24_Witness ==
  /\ input_layer.made
  /\ input_layer.call = InputCall("setTrainable", TRUE, "not_supported")
  /\ input_layer.output_dim = input_layer.input_dim
  /\ ~input_layer.trainable

(* C25: getTotalNumBatches fails with a runtime error when the buffer is   *)
(* not file based or total_data_entries is 0, returns the integer quotient *)
(* total_data_entries / batch_size otherwise, and changes no field of the  *)
(* buffer.                                                                 *)
C25_GetTotalNumBatches ==
  [][(data_buffer.made /\ data_buffer'.call.op = "getTotalNumBatches") =>
       /\ [data_buffer' EXCEPT !.call = data_buffer.call] = data_buffer
       /\ IF \/ data_buffer.type # "DATA_BUFFER_FILE"
             \/ data_buffer.total_data_entries = 0
          THEN data_buffer'.call.threw = "runtime_error"
          ELSE /\ data_buffer'.call.threw = "none"
               /\ data_buffer'.call.ret * data_buffer.batch_size
                    <= data_buffer.total_data_entries
               /\ data_buffer.total_data_entries
                    < (data_buffer'.call.ret + 1) * data_buffer.batch_size]_vars

(* five entries in batches of two are two batches *)
C25_Witness ==
  /\ data_buffer.made
  /\ data_buffer.type = "DATA_BUFFER_FILE"
  /\ data_buffer.total_data_entries = 5 /\ data_buffer.batch_size = 2
  /\ data_buffer.call = DataCall("getTotalNumBatches", 0, "none", 2)

(* C26: after initialize() with gradient sharing enabled, the gradient of  *)
(* a trainable weight lies at the offset that is the sum of the element    *)
(* counts of the trainable weights before it in its node: weights that are *)
(* not trainable do not advance the offset, and the offset restarts at 0   *)
(* in every node.                                                          *)
C26_GradOffsetIsTrainablePrefixSum ==
  (last.op = "initialize" /\ enable_gradient_memory_opt) =>
    \A i \in 1..Len(weights) : \A k \in 1..Len(weights[i]) :
      weights[i][k].trainable =>
        weights[i][k].grad.off = TrainableElems(SubSeq(weights[i], 1, k - 1))

(* gamma and beta of a batch-normalization node at 0 and 3 behind two      *)
(* weights that are not trainable, the next node's weights at 0 and 2      *)
C26_Witness ==
  /\ last.op = "initialize" /\ enable_gradient_memory_opt
  /\ Len(weights) = 2
  /\ Len(weights[1]) = 4
  /\ ~weights[1][1].trainable /\ ~weights[1][2].trainable
  /\ weights[1][3].grad.off = 0 /\ weights[1][4].grad.off = 3
  /\ Len(weights[2]) = 2
  /\ weights[2][1].trainable /\ weights[2][1].dim = <<1, 1, 1, 2>>
  /\ weights[2][1].grad.off = 0
  /\ weights[2][2].trainable /\ weights[2][2].grad.off = 2

(* C27: after initialize() with gradient sharing enabled, whatever calls   *)
(* of trackWeight, trackWeights and reset came before, the region of every *)
(* aliased gradient lies inside the arena it views: no trainable weight is *)
(* aliased into an arena that was not allocated or is too small.           *)
C27_GradRegionsInsideArena ==
  (last.op = "initialize" /\ enable_gradient_memory_opt) =>
    \A i \in 1..Len(weights) : \A k \in 1..Len(weights[i]) :
      LET w == weights[i][k]
      IN  w.trainable =>
            /\ w.grad.kind = "alias"
            /\ shared_grad.kind = "own"
            /\ w.grad.cap = shared_grad.cap
            /\ w.grad.off + getDataLen(w.dim) <= shared_grad.cap

(* C28: after initializeInOuts(true) with derivative sharing enabled,      *)
(* whatever calls of TrackLayerInOuts, untrackLayerInOuts, setBatchSize    *)
(* and reset came before, the region of every aliased derivative lies      *)
(* inside [0, max_derivative_size).                                        *)
C28_DerivRegionsInsideArena ==
  (last.op = "initializeInOuts" /\ last.flag /\ enable_derivative_memory_opt) =>
    \A i \in 1..Len(in_outs) : \A k \in 1..Len(in_outs[i]) :
      LET io == in_outs[i][k]
      IN  io.trainable =>
            /\ io.grad.kind = "alias"
            /\ io.grad.off + getDataLen(io.dim) <= max_derivative_size

(* Every aliased derivative of the given in_outs lies inside the arena it  *)
(* was bound to                                                            *)
AliasesInsideArena(ios) ==
  \A i \in 1..Len(ios) : \A k \in 1..Len(ios[i]) :
    ios[i][k].grad.kind = "alias" =>
      ios[i][k].grad.off + getDataLen(ios[i][k].dim) <= ios[i][k].grad.cap

(* C29: a setBatchSize(b) that finds every aliased derivative inside the   *)
(* arena it was bound to by initializeInOuts(true) leaves every one of     *)
(* them, with its new batch, inside that arena, also when b is larger than *)
(* the batch the arena was allocated for.                                  *)
C29_SetBatchSizeKeepsAliasesInside ==
  [][(last'.op = "setBatchSize" /\ AliasesInsideArena(in_outs)) =>
       AliasesInsideArena(in_outs')]_vars

C31_TrackLayerInOutsEffect ==
  [][last'.op = "TrackLayerInOuts" =>
       LET n == Len(in_outs)
           l_io == in_outs'[n + 1]
           elems == SumSeq([k \in 1..Len(l_io) |-> getDataLen(l_io[k].dim)])
       IN  /\ Len(in_outs') = n + 1
           /\ SubSeq(in_outs', 1, n) = in_outs
           /\ \A k \in 1..Len(l_io) :
                /\ l_io[k].name = last'.name \o <<":InOut", Digits[k]>>
                /\ l_io[k].trainable = last'.flag
           /\ max_derivative_size' =
                (IF last'.flag /\ elems > max_derivative_size
                 THEN elems ELSE max_derivative_size)
           /\ UNCHANGED <<weights, max_weight_size>>]_vars

(* a second entry of two pairs raised the maximum from 32 to 44 *)
C31_Witness ==
  /\ last.op = "TrackLayerInOuts" /\ last.flag /\ last.name = <<"b">>
  /\ Len(in_outs) = 2
  /\ Len(in_outs[1]) = 1 /\ in_outs[1][1].trainable
  /\ Len(in_outs[2]) = 2
  /\ in_outs[2][1].name = <<"b", ":InOut", "0">>
  /\ in_outs[2][2].name = <<"b", ":InOut", "1">>
  /\ max_derivative_size = 44
  /\ weights # <<>>

(* The entries whose first pair carries the name generated for layer_name *)
TrackedAs(layer_name) ==
  {i \in 1..Len(in_outs) :
     /\ Len(in_outs[i]) > 0
     /\ in_outs[i][1].name = layer_name \o <<":InOut", "0">>}

(* C32: untrackLayerInOuts(name) removes exactly the first entry whose     *)
(* first pair is named name:InOut0 and keeps the others in their order;    *)
(* when no entry carries the name, as after the removal of the only one,   *)
(* it removes nothing; it changes neither the weights nor max_weight_size  *)
(* nor max_derivative_size.                                                *)
C32_UntrackRemovesFirstMatch ==
  [][last'.op = "untrackLayerInOuts" =>
       /\ IF TrackedAs(last'.name) = {}
          THEN in_outs' = in_outs
          ELSE \E i \in TrackedAs(last'.name) :
                 /\ \A j \in TrackedAs(last'.name) : i <= j
                 /\ Len(in_outs') = Len(in_outs) - 1
                 /\ \A j \in 1..Len(in_outs') :
                      in_outs'[j] = in_outs[IF j < i THEN j ELSE j + 1]
       /\ UNCHANGED <<weights, max_weight_size, max_derivative_size>>]_vars

(* of two entries tracked as a the first was removed, the second is left   *)
(* for a second call                                                       *)
C32_Witness ==
  /\ last.op = "untrackLayerInOuts" /\ last.name = <<"a">>
  /\ Len(in_outs) = 1
  /\ Len(in_outs[1]) = 2
  /\ in_outs[1][1].name = <<"a", ":InOut", "0">>
  /\ max_derivative_size = 44

(* C33: in every reachable state getInputsLayer(i) returns the entry of    *)
(* the layer whose execution index is i and getInputsLayer(-1) the entry   *)
(* of the last layer, also after untrackLayerInOuts removed an entry.      *)
C33_EntriesInExecutionOrder ==
  /\ \A p \in 1..Len(in_outs) :
       getInputsLayer(ExecutionIndex(LayerOf(in_outs[p]))) = {in_outs[p]}
  /\ in_outs # <<>> =>
       \E p \in 1..Len(in_outs) :
         /\ getInputsLayer(-1) = {in_outs[p]}
         /\ \A q \in 1..Len(in_outs) :
              ExecutionIndex(LayerOf(in_outs[q]))
                <= ExecutionIndex(LayerOf(in_outs[p]))

(* C34: whatever distribute properties were applied to a LayerNode, its    *)
(* distribute flag is true exactly when the layer it stores is a           *)
(* TimeDistLayer, the layer it was made with is wrapped at most once, and  *)
(* getLayer() returns no TimeDistLayer wrapper of the node.                *)
C34_DistributeMatchesWrapping ==
  lnode.made =>
    /\ lnode.distribute <=> (lnode.wrap > 0 \/ lnode.type = "time_dist")
    /\ lnode.wrap <= 1
    /\ getLayer(lnode).wrappers = 0
    /\ lnode.type # "time_dist" => getLayer(lnode).what = "user"

(* The batch of the node's input dimension, 0 when it has none *)
InputBatch(nd) == IF nd.input_dim = <<>> THEN 0 ELSE nd.input_dim[1][1]

(* The numbers of a shape string *)
ShapeNumbers(value) ==
  [k \in 1..((Len(value) + 1) \div 2) |-> NumberOf(<<value[2 * k - 1]>>)]

(* A call of setProperty with one input_shape property of three or four    *)
(* numbers sets channel, height and width to the last three                *)
ParsedShapeIsSet ==
  (ncall'.op = "setProperty" /\ Len(ncall'.properties) = 1) =>
    LET value == SubSeq(ncall'.properties[1], 3, Len(ncall'.properties[1]))
        nums == ShapeNumbers(value)
        n == Len(nums)
    IN  (n \in {3, 4} /\ \A k \in 1..n : nums[k] # 0) =>
          \A k \in 1..3 : lnode'.input_dim[1][k + 1] = nums[n - 3 + k]

BatchMajor(p) ==
  IF p <= NumNodes THEN in_outs[p][1].dim
  ELSE <<model_batch, 1, in_outs[1][1].dim[3], tdim[p].v[4]>>

(* C37: after forwarding, calcGradient and calcDerivative of a             *)
(* TimeDistLayer its input value, input gradient, output value and output  *)
(* gradient have again the batch-major dimensions (batch, 1, time, width)  *)
(* they had before calcGradient, and so has every tensor when the step is  *)
(* over.                                                                   *)
C37_DimsRestoredAfterBackward ==
  /\ last.op = "calcDerivative" =>
       \A p \in {run.node, run.node + 1} :
         tdim[p].v = BatchMajor(p) /\ tdim[p].g = BatchMajor(p)
  /\ run.stage = "done" =>
       \A p \in 1..(NumNodes + 1) :
         tdim[p].v = BatchMajor(p) /\ tdim[p].g = BatchMajor(p)

(* the first of two nodes over two timesteps is back at 4:1:2:w *)
C37_Witness ==
  /\ last.op = "calcDerivative"
  /\ NumNodes = 2 /\ run.node = 1
  /\ in_outs[1][1].dim[3] = 2
  /\ tdim[1].g = in_outs[1][1].dim
  /\ tdim[2].v = in_outs[2][1].dim
  /\ tdim[1].g[1] = 4 /\ tdim[1].g[3] = 2

(* C36: TimeDistLayer::initialize fails with invalid-argument when the     *)
(* layer has not exactly one input, has no inner layer set, or its input   *)
(* has a channel other than 1; the inner layer then received no            *)
(* setProperty, setBatch or initialize and output_dim is unchanged.  When  *)
(* it succeeds, the output has the height of the input and the batch,      *)
(* channel and width of the inner layer's output.                          *)
C36_TimeDistInitialize ==
  [][(time_dist.made /\ time_dist'.made /\
      time_dist.stage = "configured" /\ time_dist'.stage = "called") =>
       /\ ( \/ time_dist.num_inputs # 1
            \/ ~time_dist.dist_layer
            \/ \E k \in 1..time_dist.num_inputs :
                 k = 1 /\ time_dist.input_dim[k][2] # 1 ) =>
             /\ time_dist'.call.threw = "invalid_argument"
             /\ time_dist'.inner_calls = <<>>
             /\ time_dist'.output_dim = time_dist.output_dim
       /\ time_dist'.call.threw = "none" =>
             /\ time_dist'.output_dim[3] = time_dist.input_dim[1][3]
             /\ \A k \in {1, 2, 4} :
                  time_dist'.output_dim[k] = time_dist'.call.inner_out[k]
             /\ [k \in 1..3 |-> time_dist'.inner_calls[k].op] =
                  <<"setProperty", "setBatch", "initialize">>]_vars

(* one input of channel 3 with an inner layer set: the call throws and the *)
(* output dimension is the one of before                                   *)
C36_Witness ==
  /\ time_dist.made /\ time_dist.stage = "called"
  /\ time_dist.num_inputs = 1 /\ time_dist.dist_layer
  /\ time_dist.input_dim = <<(<<4, 3, 2, 2>>)>>
  /\ time_dist.call.threw = "invalid_argument"
  /\ time_dist.inner_calls = <<>>
  /\ time_dist.output_dim = <<4, 1, 2, 1>>

(* C38: setInputSize(bytes, idx) mirrors setLabelSize on the inputs: it    *)
(* fails with invalid-argument when bytes is 0, fails with                 *)
(* invalid-argument for an idx beyond the configured inputs whenever more  *)
(* than one input is configured, and grows the list to idx + 1 entries     *)
(* only when a single input is configured; a failing call leaves           *)
(* input_size and label_size unchanged, and the number of labels           *)
(* configured has no influence on the outcome.                             *)
C38_SetInputSizeLooksAtInputs ==
  [][(data_buffer.made /\ data_buffer'.made /\
      data_buffer'.call.op = "setInputSize") =>
       LET bytes == data_buffer'.call.arg[1]
           idx == data_buffer'.call.arg[2]
           size == Len(data_buffer.input_size)
           fails == bytes = 0 \/ (idx >= size /\ size > 1)
       IN  /\ data_buffer'.label_size = data_buffer.label_size
           /\ fails =>
                 /\ data_buffer'.call.threw = "invalid_argument"
                 /\ data_buffer'.input_size = data_buffer.input_size
           /\ ~fails =>
                 /\ data_buffer'.call.threw = "none"
                 /\ Len(data_buffer'.input_size) =
                      (IF idx >= size THEN idx + 1 ELSE size)
                 /\ data_buffer'.input_size[idx + 1] = bytes]_vars

====
